---- MODULE Spec2Model ----
(***************************************************************************)
(* EROS hierarchical orchestration (src/eros_core.py): the BeliefRegistry  *)
(* shared store, InternAgent workers, EROSManager supervisors and the      *)
(* SovereignOrchestrator that owns them; the health scan and diagnosis of  *)
(* KimiEROSManager (src/kimi_integration.py) beside those of EROSManager.  *)
(*                                                                         *)
(* Execution model: one asyncio event loop.  A coroutine runs without      *)
(* interruption from one await that suspends to the next, so each action   *)
(* below is one such uninterrupted segment.  Runnable coroutines and tasks *)
(* are interleaved in any order.                                           *)
(*                                                                         *)
(* Wall clock: now is the reading of time.time(), in whole seconds.  The   *)
(* only value of the clock the code branches on is an intern's start_time  *)
(* (monitor_intern); the time stamps written into events and records are   *)
(* not part of them here.  Python None / a missing value is the empty      *)
(* sequence <<>>, a present value v is <<v>>.  Text is a TLA+ string.      *)
(***************************************************************************)
EXTENDS Integers, Sequences, FiniteSets, TLC

\* ---------------------------------------------------------------- bounds
max_interns == 2      \* EROSManager.max_interns (instance attribute; the
                      \* constructor's default is 10, explored here at 2)
MaxOps      == 5      \* calls that grow the state (create_manager, a spawn
                      \* that succeeds, execute_task, kill, intervene,
                      \* advance_turn, make_strategic_decision) explored
                      \* in one behaviour

\* ------------------------------------------------------ program constants
maxlen == 100         \* deque(maxlen=100) of InternAgent.output_buffer
DefaultSteps == 5     \* task.get("estimated_steps", 5)
Clock0 == 1000        \* time.time(), in seconds, when the exploration starts

\* ------------------------------------------------------------ input sets
Specialties == {"code"}
Reasons     == {"stalled"}
Corrections == {"stay on goal"}
Labels      == {"phase_2", "phase_3"}
ProjectId   == "PROJ-1"
GlobalConstraints == [language |-> "Python"]

\* Task dictionaries; "estimated_steps" and "inject_failure" are optional keys.
TaskSet ==
  { [id |-> "task_1", goal |-> "build api", estimated_steps |-> 3, inject_failure |-> TRUE],
    [id |-> "task_2", goal |-> "build ui",  estimated_steps |-> 1] }

VARIABLES
  turn_number,     \* BeliefRegistry.turn_number
  state,           \* BeliefRegistry.state (the state label)
  agent_registry,  \* BeliefRegistry.agent_registry: agent id -> record
  lock_locked,     \* BeliefRegistry._lock is held
  managers,        \* SovereignOrchestrator.managers: sequence of EROSManager
  reg_tasks,       \* tasks made by asyncio.create_task(register_agent(..))
  strategic_log,   \* SovereignOrchestrator.strategic_log
  returned,        \* <<name, value..>> when the latest step is a call of
                   \* sync, intervene, monitor_intern or _diagnose_failure,
                   \* else <<>>;
                   \* the values the other calls return are the operators
                   \* named in their actions
  raised,          \* exception raised by the latest step, "none" if none
  advance_log,     \* history: new_state of each completed advance_turn
  now,             \* time.time()
  loops            \* <<run, positions>>: the run of eros_demo.py and the
                   \* position of the monitoring loop of each manager
                   \* (<<>> when no loop is part of the run)

vars == <<turn_number, state, agent_registry, lock_locked, managers,
          reg_tasks, strategic_log, returned, raised, advance_log, now, loops>>

\* ------------------------------------------------------------ AgentState
IDLE      == "idle"
RUNNING   == "running"
COMPLETED == "completed"
FAILED    == "failed"
KILLED    == "killed"
Terminal  == {COMPLETED, FAILED, KILLED}

Last(s) == s[Len(s)]

\* ------------------------------------------------------------ identifiers
\* f"manager_{len(self.managers)}": the k-th manager created (k from 0).
ManagerId(k) == <<"manager", k>>
AgentId_without_manager(manager_id, n) == <<ManagerId(0), "intern", n>>

\* f"{manager_id}_intern_{len(self.interns)}"
AgentId(manager_id, n) == <<manager_id, "intern", n>>

\* --------------------------------------------------------- BeliefRegistry
\* sync(): the snapshot dictionary
Snapshot == [project_id |-> ProjectId, global_constraints |-> GlobalConstraints,
             state |-> state, turn |-> turn_number]

\* body of register_agent: agent_registry[agent_id] = {**metadata, "turn": turn}
register_agent_lost(reg, agent_id, metadata, turn) ==
  [x \in {agent_id} |-> [turn |-> turn] @@ metadata]

register_agent_stamp_next(reg, agent_id, metadata, turn) ==
  [x \in DOMAIN reg \cup {agent_id} |->
     IF x = agent_id THEN [turn |-> turn + 1] @@ metadata ELSE reg[x]]

register_agent(reg, agent_id, metadata, turn) ==
  [x \in DOMAIN reg \cup {agent_id} |->
     IF x = agent_id THEN [turn |-> turn] @@ metadata ELSE reg[x]]

\* ------------------------------------------------------------ InternAgent
\* InternAgent.__init__; pc is the position of the agent's execute_task
\* coroutine: "new" (never called), "sleep" (suspended in asyncio.sleep),
\* "returned".  step is the loop variable, result the status of the result,
\* error its error text.
Intern(agent_id, specialty, manager_id) ==
  [agent_id |-> agent_id, specialty |-> specialty, manager_id |-> manager_id,
   state |-> IDLE, output_buffer |-> <<>>, task |-> <<>>, start_time |-> <<>>,
   pc |-> "new", step |-> 0, result |-> <<>>, error |-> <<>>]

DequeAppend_front(buf, e, cap) ==
  IF Len(buf) < cap THEN <<e>> \o buf ELSE <<e>> \o SubSeq(buf, 1, Len(buf) - 1)

\* deque(maxlen=cap).append(e): the oldest entry is evicted when full
DequeAppend(buf, e, cap) ==
  IF Len(buf) < cap THEN Append(buf, e) ELSE Append(Tail(buf), e)

EstimatedSteps_no_default(task) ==
  IF "estimated_steps" \in DOMAIN task THEN task.estimated_steps ELSE 1

EstimatedSteps(task) ==
  IF "estimated_steps" \in DOMAIN task THEN task.estimated_steps ELSE DefaultSteps
InjectFailure(task) ==
  IF "inject_failure" \in DOMAIN task THEN task.inject_failure ELSE FALSE
Goal(task) == IF "goal" \in DOMAIN task THEN task.goal ELSE "unknown"
TaskId(task) == IF "id" \in DOMAIN task THEN <<task.id>> ELSE <<>>

\* f"Step {step + 1}: Processing {specialty} for {goal}"
StepEvent(w, k) ==
  [content |-> "Step " \o ToString(k) \o ": Processing " \o w.specialty
                 \o " for " \o Goal(w.task[1]),
   step |-> k]
\* f"KILLED: {reason}"
KillEvent(reason) == [content |-> "KILLED: " \o reason, terminal |-> TRUE]
IsTerminalEvent(e) == "terminal" \in DOMAIN e
KillCount(buf) == Len(SelectSeq(buf, IsTerminalEvent))
StepEvents(buf) == SelectSeq(buf, LAMBDA e : ~IsTerminalEvent(e))

\* execute_task up to its first suspension: the assignments before the loop,
\* and the code after the loop when the loop body never runs.
StartExecute(w, task, t) ==
  IF EstimatedSteps(task) > 0
  THEN [w EXCEPT !.task = <<task>>, !.state = RUNNING, !.start_time = <<t>>,
                 !.step = 0, !.result = <<"in_progress">>, !.pc = "sleep"]
  ELSE [w EXCEPT !.task = <<task>>, !.state = COMPLETED, !.start_time = <<t>>,
                 !.step = 0, !.result = <<"completed">>, !.pc = "returned"]

ResumeExecute_parked_when_killed(w) ==
  IF w.state = KILLED THEN w
  ELSE
  LET task == w.task[1]
      buf  == DequeAppend(w.output_buffer, StepEvent(w, w.step + 1), maxlen)
  IN  IF InjectFailure(task) /\ w.step = 2
      THEN [w EXCEPT !.output_buffer = buf, !.state = FAILED,
                     !.result = <<"error">>,
                     !.error = <<"Simulated failure: hallucination detected">>,
                     !.pc = "returned"]
      ELSE IF w.step + 1 < EstimatedSteps(task)
      THEN [w EXCEPT !.output_buffer = buf, !.step = w.step + 1]
      ELSE [w EXCEPT !.output_buffer = buf, !.state = COMPLETED,
                     !.result = <<"completed">>, !.pc = "returned"]

\* execute_task from the return of asyncio.sleep to the next suspension or
\* to the return: one loop body, then either the next sleep, the injected
\* failure, or the code after the loop.
ResumeExecute(w) ==
  LET task == w.task[1]
      buf  == DequeAppend(w.output_buffer, StepEvent(w, w.step + 1), maxlen)
  IN  IF InjectFailure(task) /\ w.step = 2
      THEN [w EXCEPT !.output_buffer = buf, !.state = FAILED,
                     !.result = <<"error">>,
                     !.error = <<"Simulated failure: hallucination detected">>,
                     !.pc = "returned"]
      ELSE IF w.step + 1 < EstimatedSteps(task)
      THEN [w EXCEPT !.output_buffer = buf, !.step = w.step + 1]
      ELSE [w EXCEPT !.output_buffer = buf, !.state = COMPLETED,
                     !.result = <<"completed">>, !.pc = "returned"]

\* InternAgent.kill
Kill(w, reason) ==
  [w EXCEPT !.state = KILLED,
            !.output_buffer = DequeAppend(@, KillEvent(reason), maxlen)]

\* list(self.output_buffer)[-n:]
get_recent_output_all(buf, n) == buf

get_recent_output(buf, n) ==
  IF Len(buf) <= n THEN buf ELSE SubSeq(buf, Len(buf) - n + 1, Len(buf))

\* ------------------------------------------------------------------- text
\* str operations on TLA+ strings, character by character.
Char(s, i) == SubSeq(s, i, i)

UpperCase == "ABCDEFGHIJKLMNOPQRSTUVWXYZ"
LowerCase == "abcdefghijklmnopqrstuvwxyz"

LowerChar(c) ==
  IF \E i \in 1..Len(UpperCase) : Char(UpperCase, i) = c
  THEN Char(LowerCase, CHOOSE i \in 1..Len(UpperCase) : Char(UpperCase, i) = c)
  ELSE c

\* s.lower()
RECURSIVE Lower(_)
Lower(s) ==
  IF Len(s) = 0 THEN ""
  ELSE IF Len(s) = 1 THEN LowerChar(s)
  ELSE LET h == Len(s) \div 2
       IN  Lower(SubSeq(s, 1, h)) \o Lower(SubSeq(s, h + 1, Len(s)))

\* sep.join(texts)
RECURSIVE Join(_, _)
Join(texts, sep) ==
  IF texts = <<>> THEN ""
  ELSE IF Len(texts) = 1 THEN texts[1]
  ELSE texts[1] \o sep \o Join(Tail(texts), sep)

\* "sub in s"
Contains(s, sub) ==
  \E i \in 1..(Len(s) - Len(sub) + 1) : SubSeq(s, i, i + Len(sub) - 1) = sub

\* set(s.split()): the maximal runs of non-blank characters (the texts of
\* this model hold no other white space than the blank)
WordEnd(s, i) ==
  CHOOSE j \in i..Len(s) :
    /\ j = Len(s) \/ Char(s, j + 1) = " "
    /\ \A k \in i..j : Char(s, k) # " "
Split(s) ==
  { SubSeq(s, i, WordEnd(s, i)) :
      i \in { i \in 1..Len(s) : Char(s, i) # " " /\ (i = 1 \/ Char(s, i - 1) = " ") } }

\* ------------------------------------------------------------ PADTelemetry
\* A component is the fraction <<numerator, denominator>> of the float the
\* code computes; comparisons are exact.
PADTelemetry(pleasure, arousal, dominance) ==
  [pleasure |-> pleasure, arousal |-> arousal, dominance |-> dominance]

\* x > num / den, x < num / den
Above(x, num, den) == x[1] * den > num * x[2]
Below(x, num, den) == x[1] * den < num * x[2]

Clamp01_unclamped(n, d) == <<n, d>>

\* min(1.0, max(0.0, n / d)) for d > 0
Clamp01(n, d) == IF n < 0 THEN <<0, 1>> ELSE IF n > d THEN <<1, 1>> ELSE <<n, d>>

is_healthy_inclusive(pad) ==
  /\ ~Below(pad.pleasure, 2, 10)
  /\ ~Above(pad.arousal, 8, 10)
  /\ ~Below(pad.dominance, 3, 10)

\* PADTelemetry.is_healthy
is_healthy(pad) ==
  /\ Above(pad.pleasure, 2, 10)
  /\ Below(pad.arousal, 8, 10)
  /\ Above(pad.dominance, 3, 10)

\* ------------------------------------------------------------- PADAnalyzer
error_signals     == <<"error", "failed", "retry", "trying again", "unable">>
uncertain_signals == <<"maybe", "might", "uncertain", "not sure", "trying">>
confident_signals == <<"completed", "success", "done", "processed">>

\* sum(1 for signal in signals if signal in text)
SignalCount(signals, text) ==
  Cardinality({ k \in DOMAIN signals : Contains(text, signals[k]) })

\* o.get("content", "")
Content(o) == IF "content" \in DOMAIN o THEN o.content ELSE ""

analyze_output_neutral_start(outputs, task_goal) ==
  IF outputs = <<>>
  THEN PADTelemetry(<<1, 2>>, <<1, 2>>, <<1, 2>>)
  ELSE
    LET texts == [k \in DOMAIN outputs |-> Content(outputs[k])]
        combined_text == Lower(Join(texts, " "))
        goal_keywords == Split(Lower(task_goal))
        output_keywords == Split(combined_text)
        overlap == Cardinality(goal_keywords \cap output_keywords)
        len_goal == Cardinality(goal_keywords)
        error_count == SignalCount(error_signals, combined_text)
        recent == SubSeq(texts, Len(texts) - 2, Len(texts))
        repetition_score ==
          IF Len(texts) >= 3
               /\ Cardinality({ recent[k] : k \in DOMAIN recent }) < Len(recent)
          THEN 4 ELSE 0
        uncertain_count == SignalCount(uncertain_signals, combined_text)
        confident_count == SignalCount(confident_signals, combined_text)
    IN  PADTelemetry(
          Clamp01(overlap, IF len_goal > 1 THEN len_goal ELSE 1),
          Clamp01(error_count * 2 + repetition_score, 10),
          Clamp01(2 * confident_count - uncertain_count, 10))

\* PADAnalyzer.analyze_output.  arousal = error_count * 0.2 + repetition
\* and dominance = (confident - uncertain * 0.5) / 5 are kept in tenths.
analyze_output(outputs, task_goal) ==
  IF outputs = <<>>
  THEN PADTelemetry(<<0, 1>>, <<0, 1>>, <<0, 1>>)
  ELSE
    LET texts == [k \in DOMAIN outputs |-> Content(outputs[k])]
        combined_text == Lower(Join(texts, " "))
        goal_keywords == Split(Lower(task_goal))
        output_keywords == Split(combined_text)
        overlap == Cardinality(goal_keywords \cap output_keywords)
        len_goal == Cardinality(goal_keywords)
        error_count == SignalCount(error_signals, combined_text)
        recent == SubSeq(texts, Len(texts) - 2, Len(texts))
        repetition_score ==
          IF Len(texts) >= 3
               /\ Cardinality({ recent[k] : k \in DOMAIN recent }) < Len(recent)
          THEN 4 ELSE 0
        uncertain_count == SignalCount(uncertain_signals, combined_text)
        confident_count == SignalCount(confident_signals, combined_text)
    IN  PADTelemetry(
          Clamp01(overlap, IF len_goal > 1 THEN len_goal ELSE 1),
          Clamp01(error_count * 2 + repetition_score, 10),
          Clamp01(2 * confident_count - uncertain_count, 10))

\* ------------------------------------------------------------ EROSManager
Manager(manager_id) == [manager_id |-> manager_id, interns |-> <<>>, status_log |-> <<>>]

RECURSIVE SumInterns(_)
SumInterns(ms) ==
  IF ms = <<>> THEN 0 ELSE Len(Head(ms).interns) + SumInterns(Tail(ms))

RECURSIVE SumKills(_)
SumKills(ws) ==
  IF ws = <<>> THEN 0 ELSE KillCount(Head(ws).output_buffer) + SumKills(Tail(ws))
RECURSIVE TotalKills(_)
TotalKills(ms) ==
  IF ms = <<>> THEN 0 ELSE SumKills(Head(ms).interns) + TotalKills(Tail(ms))
RECURSIVE SumExecs(_)
SumExecs(ws) ==
  IF ws = <<>> THEN 0
  ELSE (IF Head(ws).pc = "new" THEN 0 ELSE 1) + SumExecs(Tail(ws))
RECURSIVE TotalExecs(_)
TotalExecs(ms) ==
  IF ms = <<>> THEN 0 ELSE SumExecs(Head(ms).interns) + TotalExecs(Tail(ms))

MgrIdx == DOMAIN managers
InternIdx(m) == DOMAIN managers[m].interns
Worker(m, i) == managers[m].interns[i]

RegistrationTask(agent_id, specialty, manager_id) ==
  [agent_id |-> agent_id,
   metadata |-> [type |-> "intern", specialty |-> specialty, manager |-> manager_id],
   done |-> FALSE]

StoreUnchanged == UNCHANGED <<turn_number, state, lock_locked, advance_log, now, loops>>

Init ==
  /\ turn_number = 0
  /\ state = "initialization"
  /\ agent_registry = <<>>
  /\ lock_locked = FALSE
  /\ managers = <<>>
  /\ reg_tasks = <<>>
  /\ strategic_log = <<>>
  /\ returned = <<>>
  /\ raised = "none"
  /\ advance_log = <<>>
  /\ now = Clock0
  /\ loops = <<>>

\* SovereignOrchestrator.create_manager
create_manager ==
  /\ managers' = Append(managers, Manager(ManagerId(Len(managers))))
  /\ returned' = <<>>
  /\ raised' = "none"
  /\ UNCHANGED <<agent_registry, reg_tasks, strategic_log>>
  /\ StoreUnchanged

\* BeliefRegistry.advance_turn: the lock is free whenever a coroutine is
\* scheduled (no holder awaits inside "async with self._lock"), so acquire
\* does not suspend and the guarded block runs in this one step.
advance_turn_by2(new_state) ==
  /\ ~lock_locked
  /\ turn_number' = turn_number + 2
  /\ state' = new_state
  /\ lock_locked' = FALSE
  /\ advance_log' = Append(advance_log, new_state)
  /\ returned' = <<>>
  /\ raised' = "none"
  /\ UNCHANGED <<agent_registry, managers, reg_tasks, strategic_log, now, loops>>

advance_turn_torn(new_state) ==
  /\ ~lock_locked
  /\ turn_number' = turn_number + 1
  /\ state' = state
  /\ lock_locked' = FALSE
  /\ advance_log' = Append(advance_log, new_state)
  /\ returned' = <<>>
  /\ raised' = "none"
  /\ UNCHANGED <<agent_registry, managers, reg_tasks, strategic_log, now, loops>>

advance_turn(new_state) ==
  /\ ~lock_locked
  /\ turn_number' = turn_number + 1
  /\ state' = new_state
  /\ lock_locked' = FALSE
  /\ advance_log' = Append(advance_log, new_state)
  /\ returned' = <<>>
  /\ raised' = "none"
  /\ UNCHANGED <<agent_registry, managers, reg_tasks, strategic_log, now, loops>>

\* BeliefRegistry.sync (not guarded by the lock)
sync ==
  /\ returned' = <<"sync", Snapshot>>
  /\ raised' = "none"
  /\ UNCHANGED <<turn_number, state, agent_registry, lock_locked, managers,
                 reg_tasks, strategic_log, advance_log, now, loops>>

\* The event loop runs one task created by spawn_intern:
\* BeliefRegistry.register_agent under the lock.
RunRegisterTask(k) ==
  /\ k \in DOMAIN reg_tasks
  /\ ~reg_tasks[k].done
  /\ ~lock_locked
  /\ agent_registry' = register_agent(agent_registry, reg_tasks[k].agent_id,
                                      reg_tasks[k].metadata, turn_number)
  /\ lock_locked' = FALSE
  /\ reg_tasks' = [reg_tasks EXCEPT ![k].done = TRUE]
  /\ returned' = <<>>
  /\ raised' = "none"
  /\ UNCHANGED <<turn_number, state, managers, strategic_log, advance_log, now, loops>>

\* EROSManager.spawn_intern
spawn_intern_off_by_one(m, specialty) ==
  /\ m \in MgrIdx
  /\ IF Len(managers[m].interns) > max_interns
     THEN /\ raised' = "ValueError"
          /\ UNCHANGED <<managers, reg_tasks>>
     ELSE LET mid      == managers[m].manager_id
              agent_id == AgentId(mid, Len(managers[m].interns))
          IN  /\ managers' = [managers EXCEPT ![m].interns =
                                Append(@, Intern(agent_id, specialty, mid))]
              /\ reg_tasks' = Append(reg_tasks,
                                RegistrationTask(agent_id, specialty, mid))
              /\ raised' = "none"
  /\ returned' = <<>>
  /\ UNCHANGED <<agent_registry, strategic_log>>
  /\ StoreUnchanged

spawn_intern_register_first(m, specialty) ==
  /\ m \in MgrIdx
  /\ LET mid      == managers[m].manager_id
         agent_id == AgentId(mid, Len(managers[m].interns))
     IN  IF Len(managers[m].interns) >= max_interns
         THEN /\ raised' = "ValueError"
              /\ reg_tasks' = Append(reg_tasks,
                                RegistrationTask(agent_id, specialty, mid))
              /\ UNCHANGED managers
         ELSE /\ managers' = [managers EXCEPT ![m].interns =
                                Append(@, Intern(agent_id, specialty, mid))]
              /\ reg_tasks' = Append(reg_tasks,
                                RegistrationTask(agent_id, specialty, mid))
              /\ raised' = "none"
  /\ returned' = <<>>
  /\ UNCHANGED <<agent_registry, strategic_log>>
  /\ StoreUnchanged

spawn_intern(m, specialty) ==
  /\ m \in MgrIdx
  /\ IF Len(managers[m].interns) >= max_interns
     THEN /\ raised' = "ValueError"
          /\ UNCHANGED <<managers, reg_tasks>>
     ELSE LET mid      == managers[m].manager_id
              agent_id == AgentId(mid, Len(managers[m].interns))
          IN  /\ managers' = [managers EXCEPT ![m].interns =
                                Append(@, Intern(agent_id, specialty, mid))]
              /\ reg_tasks' = Append(reg_tasks,
                                RegistrationTask(agent_id, specialty, mid))
              /\ raised' = "none"
  /\ returned' = <<>>
  /\ UNCHANGED <<agent_registry, strategic_log>>
  /\ StoreUnchanged

\* the corrected task respawn_with_correction builds
CorrectedTask(task, correction, previous_attempt) ==
  [context_correction |-> correction, previous_attempt |-> previous_attempt] @@ task

\* EROSManager.respawn_with_correction: spawn_intern with the failed
\* intern's specialty; corrected_task is a local that is never stored.
respawn_with_correction(m, i, correction) ==
  /\ m \in MgrIdx
  /\ i \in InternIdx(m)
  /\ spawn_intern(m, Worker(m, i).specialty)

\* InternAgent.execute_task, first segment
execute_task(m, i, task) ==
  /\ m \in MgrIdx
  /\ i \in InternIdx(m)
  /\ Worker(m, i).pc = "new"
  /\ managers' = [managers EXCEPT ![m].interns[i] = StartExecute(@, task, now)]
  /\ returned' = <<>>
  /\ raised' = "none"
  /\ UNCHANGED <<agent_registry, reg_tasks, strategic_log>>
  /\ StoreUnchanged

\* InternAgent.execute_task resumed after asyncio.sleep(0.1)
ExecuteStep(m, i) ==
  /\ m \in MgrIdx
  /\ i \in InternIdx(m)
  /\ Worker(m, i).pc = "sleep"
  /\ managers' = [managers EXCEPT ![m].interns[i] = ResumeExecute(@)]
  /\ returned' = <<>>
  /\ raised' = "none"
  /\ UNCHANGED <<agent_registry, reg_tasks, strategic_log>>
  /\ StoreUnchanged

\* InternAgent.kill called on an intern of a manager
kill(m, i, reason) ==
  /\ m \in MgrIdx
  /\ i \in InternIdx(m)
  /\ managers' = [managers EXCEPT ![m].interns[i] = Kill(@, reason)]
  /\ returned' = <<>>
  /\ raised' = "none"
  /\ UNCHANGED <<agent_registry, reg_tasks, strategic_log>>
  /\ StoreUnchanged

\* the audit record of EROSManager.intervene
InterventionLog(mgr, w, reason) ==
  [manager_id |-> mgr.manager_id, intern_id |-> w.agent_id, action |-> "SIG_KILL",
   reason |-> reason,
   task_id |-> IF w.task # <<>> THEN TaskId(w.task[1]) ELSE <<>>]

\* EROSManager.intervene: kill, append the audit record, return it
intervene_deregister(m, i, reason) ==
  /\ m \in MgrIdx
  /\ i \in InternIdx(m)
  /\ managers' = [managers EXCEPT
        ![m].interns[i] = Kill(@, reason),
        ![m].status_log = Append(@, InterventionLog(managers[m], Worker(m, i), reason))]
  /\ agent_registry' = [x \in DOMAIN agent_registry \ {Worker(m, i).agent_id} |->
                          agent_registry[x]]
  /\ returned' = <<"intervene", InterventionLog(managers[m], Worker(m, i), reason)>>
  /\ raised' = "none"
  /\ UNCHANGED <<reg_tasks, strategic_log>>
  /\ StoreUnchanged

intervene_unlogged(m, i, reason) ==
  /\ m \in MgrIdx
  /\ i \in InternIdx(m)
  /\ managers' = [managers EXCEPT ![m].interns[i] = Kill(@, reason)]
  /\ returned' = <<"intervene", InterventionLog(managers[m], Worker(m, i), reason)>>
  /\ raised' = "none"
  /\ UNCHANGED <<agent_registry, reg_tasks, strategic_log>>
  /\ StoreUnchanged

intervene(m, i, reason) ==
  /\ m \in MgrIdx
  /\ i \in InternIdx(m)
  /\ managers' = [managers EXCEPT
        ![m].interns[i] = Kill(@, reason),
        ![m].status_log = Append(@, InterventionLog(managers[m], Worker(m, i), reason))]
  /\ returned' = <<"intervene", InterventionLog(managers[m], Worker(m, i), reason)>>
  /\ raised' = "none"
  /\ UNCHANGED <<agent_registry, reg_tasks, strategic_log>>
  /\ StoreUnchanged

\* EROSManager._diagnose_failure
diagnose_failure(pad) ==
  IF Below(pad.pleasure, 2, 10)
  THEN "Low goal alignment - task divergence detected"
  ELSE IF Above(pad.arousal, 8, 10)
  THEN "High arousal - agent stalling or infinite retry loop"
  ELSE IF Below(pad.dominance, 3, 10)
  THEN "Low dominance - agent showing excessive uncertainty"
  ELSE "Unknown failure mode"

\* KimiEROSManager._diagnose_failure (src/kimi_integration.py)
kimi_diagnose_failure(pad) ==
  IF Below(pad.pleasure, 2, 10)
  THEN "Low goal alignment - task divergence detected"
  ELSE IF Above(pad.arousal, 8, 10)
  THEN "High arousal - agent stalling or infinite retry"
  ELSE IF Below(pad.dominance, 3, 10)
  THEN "Low dominance - excessive uncertainty"
  ELSE "Unknown failure mode"

\* a call of _diagnose_failure with a vector of the grid
diagnose(pad) ==
  /\ returned' = <<"diagnose_failure", pad, diagnose_failure(pad)>>
  /\ raised' = "none"
  /\ UNCHANGED <<agent_registry, managers, reg_tasks, strategic_log>>
  /\ StoreUnchanged

kimi_diagnose(pad) ==
  /\ returned' = <<"kimi_diagnose_failure", pad, kimi_diagnose_failure(pad)>>
  /\ raised' = "none"
  /\ UNCHANGED <<agent_registry, managers, reg_tasks, strategic_log>>
  /\ StoreUnchanged

\* Python truth value of intern.start_time (None, 0 are false) and of
\* intern.task (None, {} are false)
TruthyTime(start_time) == start_time # <<>> /\ start_time[1] # 0
TruthyTask(task) == task # <<>> /\ DOMAIN task[1] # {}

\* intern.task.get("goal", "")
GoalText(task) == IF "goal" \in DOMAIN task THEN task.goal ELSE ""

\* the alert dictionary of monitor_intern
Alert(mgr, w, kind, pad, reason) ==
  [manager_id |-> mgr.manager_id, intern_id |-> w.agent_id, alert |-> kind,
   telemetry |-> pad, reason |-> reason]

\* EROSManager.monitor_intern at clock reading t: <<>> for None, else
\* <<alert>>
MonitorIntern(mgr, w, t) ==
  IF w.state # RUNNING THEN <<>>
  ELSE IF TruthyTime(w.start_time) /\ t - w.start_time[1] < 30 THEN <<>>
  ELSE LET recent_outputs == get_recent_output(w.output_buffer, 5)
       IN  IF recent_outputs = <<>> \/ ~TruthyTask(w.task) THEN <<>>
           ELSE LET pad == analyze_output(recent_outputs, GoalText(w.task[1]))
                IN  IF ~is_healthy(pad)
                    THEN <<Alert(mgr, w, "INTERVENTION_REQUIRED", pad,
                                 diagnose_failure(pad))>>
                    ELSE <<>>

\* KimiEROSManager.monitor_intern (src/kimi_integration.py)
KimiMonitorIntern(mgr, w, t) ==
  IF w.state # RUNNING THEN <<>>
  ELSE IF TruthyTime(w.start_time) /\ t - w.start_time[1] > 600
  THEN <<Alert(mgr, w, "TIMEOUT",
               PADTelemetry(<<0, 1>>, <<1, 1>>, <<0, 1>>),
               "Agent exceeded 10-minute execution timeout")>>
  ELSE IF TruthyTime(w.start_time) /\ t - w.start_time[1] < 30 THEN <<>>
  ELSE LET recent_outputs == get_recent_output(w.output_buffer, 5)
       IN  IF recent_outputs = <<>> \/ ~TruthyTask(w.task) THEN <<>>
           ELSE LET pad == analyze_output(recent_outputs, GoalText(w.task[1]))
                IN  IF ~is_healthy(pad)
                    THEN <<Alert(mgr, w, "INTERVENTION_REQUIRED", pad,
                                 kimi_diagnose_failure(pad))>>
                    ELSE <<>>

\* one health scan of one intern; it never suspends
monitor_intern(m, i) ==
  /\ m \in MgrIdx
  /\ i \in InternIdx(m)
  /\ returned' = <<"monitor_intern", MonitorIntern(managers[m], Worker(m, i), now)>>
  /\ raised' = "none"
  /\ UNCHANGED <<agent_registry, managers, reg_tasks, strategic_log>>
  /\ StoreUnchanged

kimi_monitor_intern(m, i) ==
  /\ m \in MgrIdx
  /\ i \in InternIdx(m)
  /\ returned' = <<"kimi_monitor_intern",
                   KimiMonitorIntern(managers[m], Worker(m, i), now)>>
  /\ raised' = "none"
  /\ UNCHANGED <<agent_registry, managers, reg_tasks, strategic_log>>
  /\ StoreUnchanged

\* EROSManager.get_status_pulse
CountState(interns, states) == Len(SelectSeq(interns, LAMBDA w : w.state \in states))

StatusPulse_killed_uncounted(mgr) ==
  LET failed_interns == CountState(mgr.interns, {FAILED})
  IN  [manager_id |-> mgr.manager_id,
       interns_total |-> Len(mgr.interns),
       interns_active |-> CountState(mgr.interns, {RUNNING}),
       interns_completed |-> CountState(mgr.interns, {COMPLETED}),
       interns_failed |-> failed_interns,
       interventions |-> Len(mgr.status_log),
       health |-> IF failed_interns = 0 THEN "healthy" ELSE "degraded"]

StatusPulse_with_last_reason(mgr) ==
  LET failed_interns == CountState(mgr.interns, {FAILED, KILLED})
  IN  [manager_id |-> mgr.manager_id,
       interns_total |-> Len(mgr.interns),
       interns_active |-> CountState(mgr.interns, {RUNNING}),
       interns_completed |-> CountState(mgr.interns, {COMPLETED}),
       interns_failed |-> failed_interns,
       interventions |-> Len(mgr.status_log),
       health |-> IF failed_interns = 0 THEN "healthy" ELSE "degraded",
       last_reason |-> IF mgr.status_log # <<>>
                       THEN Last(mgr.status_log).reason ELSE ""]

StatusPulse_double_count(mgr) ==
  LET failed_interns == CountState(mgr.interns, {FAILED, KILLED, COMPLETED})
  IN  [manager_id |-> mgr.manager_id,
       interns_total |-> Len(mgr.interns),
       interns_active |-> CountState(mgr.interns, {RUNNING}),
       interns_completed |-> CountState(mgr.interns, {COMPLETED}),
       interns_failed |-> failed_interns,
       interventions |-> Len(mgr.status_log),
       health |-> IF failed_interns = 0 THEN "healthy" ELSE "degraded"]

StatusPulse(mgr) ==
  LET failed_interns == CountState(mgr.interns, {FAILED, KILLED})
  IN  [manager_id |-> mgr.manager_id,
       interns_total |-> Len(mgr.interns),
       interns_active |-> CountState(mgr.interns, {RUNNING}),
       interns_completed |-> CountState(mgr.interns, {COMPLETED}),
       interns_failed |-> failed_interns,
       interventions |-> Len(mgr.status_log),
       health |-> IF failed_interns = 0 THEN "healthy" ELSE "degraded"]

\* returns StatusPulse(managers[m])
get_status_pulse(m) ==
  /\ m \in MgrIdx
  /\ returned' = <<>>
  /\ raised' = "none"
  /\ UNCHANGED <<agent_registry, managers, reg_tasks, strategic_log>>
  /\ StoreUnchanged

\* SovereignOrchestrator.receive_status_pulses: one pulse per manager, in order
Pulses_reversed == [m \in MgrIdx |-> StatusPulse(managers[Len(managers) + 1 - m])]

Pulses == [m \in MgrIdx |-> StatusPulse(managers[m])]

\* a call of receive_status_pulses on its own (no await in it suspends);
\* returns Pulses
receive_status_pulses ==
  /\ returned' = <<>>
  /\ raised' = "none"
  /\ UNCHANGED <<agent_registry, managers, reg_tasks, strategic_log>>
  /\ StoreUnchanged

RECURSIVE SumField(_, _)
SumField(pulses, f) ==
  IF pulses = <<>> THEN 0 ELSE Head(pulses)[f] + SumField(Tail(pulses), f)

\* a / b if b > 0 else 0, kept as the fraction <<numerator, denominator>>
Rate(a, b) == IF b > 0 THEN <<a, b>> ELSE <<0, 1>>
RateAbove_inclusive(rate, num, den) == rate[1] * den >= num * rate[2]

\* rate > num / den
RateAbove(rate, num, den) == rate[1] * den > num * rate[2]

\* the decision record of make_strategic_decision
Decision(pulses, turn) ==
  LET total_interns   == SumField(pulses, "interns_total")
      total_completed == SumField(pulses, "interns_completed")
      total_failed    == SumField(pulses, "interns_failed")
      completion_rate == Rate(total_completed, total_interns)
      failure_rate    == Rate(total_failed, total_interns)
      metrics == [total_interns |-> total_interns,
                  active |-> SumField(pulses, "interns_active"),
                  completed |-> total_completed,
                  failed |-> total_failed,
                  completion_rate |-> completion_rate,
                  failure_rate |-> failure_rate,
                  interventions |-> SumField(pulses, "interventions")]
  IN  IF RateAbove(failure_rate, 3, 10)
      THEN [turn |-> turn, metrics |-> metrics, action |-> "PAUSE_AND_RECALIBRATE",
            reason |-> "High failure rate detected - belief constraints may be unclear"]
      ELSE IF RateAbove(completion_rate, 8, 10)
      THEN [turn |-> turn, metrics |-> metrics, action |-> "ADVANCE_PHASE",
            reason |-> "Swarm performing well - advance to next phase"]
      ELSE [turn |-> turn, metrics |-> metrics, action |-> "CONTINUE_MONITORING",
            reason |-> "Swarm operating within normal parameters"]

make_strategic_decision_overwrite ==
  /\ strategic_log' = <<Decision(Pulses, turn_number)>>
  /\ returned' = <<>>
  /\ raised' = "none"
  /\ UNCHANGED <<agent_registry, managers, reg_tasks>>
  /\ StoreUnchanged

\* receive_status_pulses followed by make_strategic_decision on its result
\* (receive_status_pulses never suspends, so the two run in one step);
\* returns the record it appends
make_strategic_decision ==
  /\ strategic_log' = Append(strategic_log, Decision(Pulses, turn_number))
  /\ returned' = <<>>
  /\ raised' = "none"
  /\ UNCHANGED <<agent_registry, managers, reg_tasks>>
  /\ StoreUnchanged

\* SovereignOrchestrator.get_orchestrator_view
OrchestratorView ==
  [project_id |-> ProjectId, state |-> state, turn |-> turn_number,
   managers |-> Len(managers),
   last_decision |-> IF strategic_log # <<>> THEN <<Last(strategic_log)>> ELSE <<>>,
   belief_registry |-> [project_id |-> ProjectId, constraints |-> GlobalConstraints,
                        state |-> state, turn |-> turn_number,
                        agents |-> Cardinality(DOMAIN agent_registry)]]

\* returns OrchestratorView
get_orchestrator_view ==
  /\ returned' = <<>>
  /\ raised' = "none"
  /\ UNCHANGED <<agent_registry, managers, reg_tasks, strategic_log>>
  /\ StoreUnchanged

\* ------------------------------------------------------------------ system
\* Every operation, called at any time on any manager or intern.  Each call
\* counted by Used adds to the state for good, so a behaviour holds at most
\* MaxOps of them; the other steps (a refused spawn, sync, a registration
\* task, a step of a running execute_task, a status pulse, a view) are always
\* explored.
Used == Len(managers) + SumInterns(managers) + TotalKills(managers)
          + TotalExecs(managers) + turn_number + Len(strategic_log)
OpsLeft == Used < MaxOps
CanSpawn(m) == Len(managers[m].interns) >= max_interns \/ OpsLeft

Next ==
  \/ OpsLeft /\ create_manager
  \/ \E m \in MgrIdx, s \in Specialties : CanSpawn(m) /\ spawn_intern(m, s)
  \/ \E m \in MgrIdx : \E i \in InternIdx(m), c \in Corrections :
       CanSpawn(m) /\ respawn_with_correction(m, i, c)
  \/ \E k \in DOMAIN reg_tasks : RunRegisterTask(k)
  \/ \E m \in MgrIdx : \E i \in InternIdx(m), t \in TaskSet :
       OpsLeft /\ execute_task(m, i, t)
  \/ \E m \in MgrIdx : \E i \in InternIdx(m) : ExecuteStep(m, i)
  \/ \E m \in MgrIdx : \E i \in InternIdx(m), r \in Reasons :
       OpsLeft /\ kill(m, i, r)
  \/ \E m \in MgrIdx : \E i \in InternIdx(m), r \in Reasons :
       OpsLeft /\ intervene(m, i, r)
  \/ \E l \in Labels : OpsLeft /\ advance_turn(l)
  \/ sync
  \/ \E m \in MgrIdx : get_status_pulse(m)
  \/ receive_status_pulses
  \/ OpsLeft /\ make_strategic_decision
  \/ get_orchestrator_view

Spec == Init /\ [][Next]_vars

\* ------------------------------------------------------------ health scan
\* One manager with one intern whose execution backend has streamed some
\* output; the clock moves and the manager scans the intern.
MonitorTasks ==
  { [id |-> "task_1", goal |-> "fix login"],
    [id |-> "task_5", goal |-> "add login page unit tests"],
    <<>> }

OkText   == "login done success"
ErrText  == "Error: x"
MonitorTexts ==
  { <<>>,
    <<OkText>>,
    <<ErrText>>,
    <<ErrText, ErrText, ErrText>>,
    <<OkText, ErrText, ErrText, ErrText, ErrText, ErrText>>,
    <<ErrText, OkText, "Step 2", "Step 3", "Step 4", "Step 5">>,
    <<"login done success error failed retry unable">>,
    <<"login done success maybe">> }

MonitorStates == {RUNNING, COMPLETED, FAILED, KILLED}

\* clock readings: the start, around the end of the warm-up, around the
\* maximal runtime
Instants == { Clock0 + d : d \in {0, 29, 30, 31, 600, 601} }

Streamed(w, texts, st) ==
  [w EXCEPT !.output_buffer = [k \in DOMAIN texts |-> [content |-> texts[k]]],
            !.state = st,
            !.pc = IF st \in {COMPLETED, FAILED} THEN "returned" ELSE "sleep"]

MonitorInterns ==
  LET mid   == ManagerId(0)
      fresh == Intern(AgentId(mid, 0), "code", mid)
  IN  {fresh} \cup
      { Streamed(StartExecute(fresh, task, Clock0), texts, st) :
          task \in MonitorTasks, texts \in MonitorTexts, st \in MonitorStates }

InitMonitor ==
  \E w \in MonitorInterns :
    /\ turn_number = 0
    /\ state = "initialization"
    /\ agent_registry = register_agent(<<>>, w.agent_id,
                           RegistrationTask(w.agent_id, w.specialty, w.manager_id).metadata, 0)
    /\ lock_locked = FALSE
    /\ managers = <<[Manager(w.manager_id) EXCEPT !.interns = <<w>>]>>
    /\ reg_tasks = <<[RegistrationTask(w.agent_id, w.specialty, w.manager_id)
                        EXCEPT !.done = TRUE]>>
    /\ strategic_log = <<>>
    /\ returned = <<>>
    /\ raised = "none"
    /\ advance_log = <<>>
    /\ now = Clock0
    /\ loops = <<>>

\* time passes
Tick ==
  /\ \E t \in Instants : t > now /\ now' = t
  /\ returned' = <<>>
  /\ raised' = "none"
  /\ UNCHANGED <<turn_number, state, agent_registry, lock_locked, managers,
                 reg_tasks, strategic_log, advance_log, loops>>

NextMonitor ==
  \/ Tick
  \/ \E m \in MgrIdx : \E i \in InternIdx(m) : monitor_intern(m, i)
  \/ \E m \in MgrIdx : \E i \in InternIdx(m) : kimi_monitor_intern(m, i)

SpecMonitor == InitMonitor /\ [][NextMonitor]_vars

\* -------------------------------------------------------------- diagnosis
\* _diagnose_failure called with every vector of a grid of tenths
PadGrid ==
  { PADTelemetry(<<p, 10>>, <<a, 10>>, <<d, 10>>) :
      p \in 0..10, a \in 0..10, d \in 0..10 }

NextDiagnose ==
  \/ \E pad \in PadGrid : diagnose(pad)
  \/ \E pad \in PadGrid : kimi_diagnose(pad)

SpecDiagnose == Init /\ [][NextDiagnose]_vars

\* --------------------------------------------------------------- decision
\* make_strategic_decision called with status pulses written by the caller,
\* as the tests do: one pulse of ten interns, or two pulses of five.
MaxDecisions == 1     \* calls of make_strategic_decision in one behaviour

HandPulse(k, total, completed, failed) ==
  [manager_id |-> ManagerId(k), interns_total |-> total,
   interns_active |-> IF completed + failed < total
                      THEN total - completed - failed ELSE 0,
   interns_completed |-> completed, interns_failed |-> failed,
   interventions |-> failed,
   health |-> IF failed = 0 THEN "healthy" ELSE "degraded"]

PulseLists ==
  {<<>>}
    \cup { <<HandPulse(0, 10, c, f)>> : c \in 0..10, f \in 0..10 }
    \cup { <<HandPulse(0, 5, c0, f0), HandPulse(1, 5, c1, f1)>> :
             c0 \in {4, 5}, f0 \in {1, 2}, c1 \in {4, 5}, f1 \in {1, 2} }

\* SovereignOrchestrator.make_strategic_decision(pulses); returns the record
\* it appends
decide(pulses) ==
  /\ strategic_log' = Append(strategic_log, Decision(pulses, turn_number))
  /\ returned' = <<"make_strategic_decision", pulses, Decision(pulses, turn_number)>>
  /\ raised' = "none"
  /\ UNCHANGED <<agent_registry, managers, reg_tasks>>
  /\ StoreUnchanged

NextDecide ==
  \E pulses \in PulseLists : Len(strategic_log) < MaxDecisions /\ decide(pulses)

SpecDecide == Init /\ [][NextDecide]_vars

\* --------------------------------------------------------------- analysis
\* PADAnalyzer.analyze_output applied to the output records and the goal of
\* one running intern: every list of at most MaxOutputs records, every goal
\* of a small set.
MaxOutputs == 3       \* records in the buffer of the analysed intern

AllErrText  == "error failed retry trying again unable"
UnsureText  == "Maybe it might work, not sure"
AnalyzeRecords ==
  { [content |-> c] : c \in {"", OkText, ErrText, AllErrText, UnsureText} }
    \cup { [timestamp |-> Clock0] }
AnalyzeGoals == {"", "fix login", "Login"}

RECURSIVE Lists(_, _)
Lists(S, n) ==
  IF n = 0 THEN {<<>>}
  ELSE Lists(S, n - 1) \cup { Append(l, e) : l \in Lists(S, n - 1), e \in S }

InitAnalyze ==
  \E outputs \in Lists(AnalyzeRecords, MaxOutputs), g \in AnalyzeGoals :
    LET mid == ManagerId(0)
        w   == [StartExecute(Intern(AgentId(mid, 0), "code", mid), [goal |-> g], Clock0)
                  EXCEPT !.output_buffer = outputs]
    IN  /\ turn_number = 0
        /\ state = "initialization"
        /\ agent_registry = register_agent(<<>>, w.agent_id,
                               RegistrationTask(w.agent_id, w.specialty, w.manager_id).metadata, 0)
        /\ lock_locked = FALSE
        /\ managers = <<[Manager(mid) EXCEPT !.interns = <<w>>]>>
        /\ reg_tasks = <<[RegistrationTask(w.agent_id, w.specialty, w.manager_id)
                            EXCEPT !.done = TRUE]>>
        /\ strategic_log = <<>>
        /\ returned = <<>>
        /\ raised = "none"
        /\ advance_log = <<>>
        /\ now = Clock0
        /\ loops = <<>>

\* PADAnalyzer.analyze_output(list(intern.output_buffer), task["goal"]);
\* returns the vector
analyze(m, i) ==
  /\ returned' = <<"analyze_output",
                   analyze_output(Worker(m, i).output_buffer, Worker(m, i).task[1].goal)>>
  /\ raised' = "none"
  /\ UNCHANGED <<agent_registry, managers, reg_tasks, strategic_log>>
  /\ StoreUnchanged

NextAnalyze == \E m \in MgrIdx : \E i \in InternIdx(m) : analyze(m, i)

SpecAnalyze == InitAnalyze /\ [][NextAnalyze]_vars

\* ----------------------------------------------------------------- health
\* is_healthy called on every vector of the grid of tenths
check_health(pad) ==
  /\ returned' = <<"is_healthy", pad, is_healthy(pad)>>
  /\ raised' = "none"
  /\ UNCHANGED <<agent_registry, managers, reg_tasks, strategic_log>>
  /\ StoreUnchanged

NextHealth == \E pad \in PadGrid : check_health(pad)

SpecHealth == Init /\ [][NextHealth]_vars

\* ----------------------------------------------------------------- buffer
\* Two workers that produce more output records than the deque of an
\* InternAgent holds: an InternAgent of an EROSManager running a task of
\* maxlen + Extra steps, and a KimiInternAgent of a KimiEROSManager whose
\* backend streams up to maxlen + Extra chunks.
Extra == 5            \* records produced beyond maxlen

LongTask == [id |-> "task_9", goal |-> "index", estimated_steps |-> maxlen + Extra]

\* f"{manager_id}_kimi_{n}"
KimiAgentId(manager_id, n) == <<manager_id, "kimi", n>>
IsKimi(w) == w.agent_id[2] = "kimi"

\* KimiInternAgent.__init__: output_buffer is a plain list.  pc is "new",
\* "stream" (suspended in the stream of the backend or in asyncio.sleep(0))
\* or "returned"; step counts the chunks received.
KimiIntern(agent_id, specialty, manager_id) ==
  [agent_id |-> agent_id, specialty |-> specialty, manager_id |-> manager_id,
   state |-> IDLE, output_buffer |-> <<>>, task |-> <<>>, start_time |-> <<>>,
   pc |-> "new", step |-> 0, result |-> <<>>, error |-> <<>>]

\* the k-th chunk of the stream of the backend
Chunk(k) == "chunk " \o ToString(k)
ChunkEvent(w, k, t) == [content |-> Chunk(k), delta |-> t - w.start_time[1]]

InitBuffer ==
  LET m0 == ManagerId(0)
      m1 == ManagerId(1)
      w  == Intern(AgentId(m0, 0), "code", m0)
      kw == KimiIntern(KimiAgentId(m1, 0), "code", m1)
  IN  /\ turn_number = 0
      /\ state = "initialization"
      /\ agent_registry = register_agent(<<>>, w.agent_id,
                             RegistrationTask(w.agent_id, w.specialty, w.manager_id).metadata, 0)
      /\ lock_locked = FALSE
      /\ managers = <<[Manager(m0) EXCEPT !.interns = <<w>>],
                      [Manager(m1) EXCEPT !.interns = <<kw>>]>>
      /\ reg_tasks = <<[RegistrationTask(w.agent_id, w.specialty, w.manager_id)
                          EXCEPT !.done = TRUE]>>
      /\ strategic_log = <<>>
      /\ returned = <<>>
      /\ raised = "none"
      /\ advance_log = <<>>
      /\ now = Clock0
      /\ loops = <<>>

\* KimiInternAgent.execute_task up to the first chunk of the stream
kimi_execute_task(m, i, task) ==
  /\ m \in MgrIdx
  /\ i \in InternIdx(m)
  /\ Worker(m, i).pc = "new"
  /\ managers' = [managers EXCEPT ![m].interns[i] =
                    [@ EXCEPT !.task = <<task>>, !.state = RUNNING, !.start_time = <<now>>,
                              !.step = 0, !.result = <<"in_progress">>, !.pc = "stream"]]
  /\ returned' = <<>>
  /\ raised' = "none"
  /\ UNCHANGED <<agent_registry, reg_tasks, strategic_log>>
  /\ StoreUnchanged

\* the stream yields one more chunk: it is appended to the list, then the
\* coroutine sleeps and asks for the next chunk
KimiChunk(m, i) ==
  /\ m \in MgrIdx
  /\ i \in InternIdx(m)
  /\ Worker(m, i).pc = "stream"
  /\ Worker(m, i).step < maxlen + Extra
  /\ managers' = [managers EXCEPT ![m].interns[i] =
                    [@ EXCEPT !.output_buffer =
                                 Append(@, ChunkEvent(Worker(m, i), Worker(m, i).step + 1, now)),
                              !.step = @ + 1]]
  /\ returned' = <<>>
  /\ raised' = "none"
  /\ UNCHANGED <<agent_registry, reg_tasks, strategic_log>>
  /\ StoreUnchanged

\* the stream ends: the code after the loop
KimiStreamEnd(m, i) ==
  /\ m \in MgrIdx
  /\ i \in InternIdx(m)
  /\ Worker(m, i).pc = "stream"
  /\ managers' = [managers EXCEPT ![m].interns[i] =
                    [@ EXCEPT !.state = COMPLETED, !.result = <<"completed">>,
                              !.pc = "returned"]]
  /\ returned' = <<>>
  /\ raised' = "none"
  /\ UNCHANGED <<agent_registry, reg_tasks, strategic_log>>
  /\ StoreUnchanged

\* what the backend can raise inside the stream: asyncio.TimeoutError, or any
\* other exception e with its text str(e)
BackendErrors == {"timeout", "503 Service Unavailable"}

KimiStreamFail_propagates(m, i, e) ==
  /\ m \in MgrIdx
  /\ i \in InternIdx(m)
  /\ Worker(m, i).pc = "stream"
  /\ managers' = [managers EXCEPT ![m].interns[i] = [@ EXCEPT !.pc = "returned"]]
  /\ returned' = <<>>
  /\ raised' = e
  /\ UNCHANGED <<agent_registry, reg_tasks, strategic_log>>
  /\ StoreUnchanged

\* the stream raises: the except clauses of execute_task
KimiStreamFail(m, i, e) ==
  /\ m \in MgrIdx
  /\ i \in InternIdx(m)
  /\ Worker(m, i).pc = "stream"
  /\ managers' = [managers EXCEPT ![m].interns[i] =
                    IF e = "timeout"
                    THEN [@ EXCEPT !.state = FAILED, !.result = <<"timeout">>,
                                   !.error = <<"Task execution exceeded timeout limit">>,
                                   !.pc = "returned"]
                    ELSE [@ EXCEPT !.state = FAILED, !.result = <<"error">>,
                                   !.error = <<e>>, !.pc = "returned"]]
  /\ returned' = <<>>
  /\ raised' = "none"
  /\ UNCHANGED <<agent_registry, reg_tasks, strategic_log>>
  /\ StoreUnchanged

\* a task whose simulated backend fails in its third step
FaultyTask == [id |-> "task_8", goal |-> "index", estimated_steps |-> 4,
               inject_failure |-> TRUE]

NextBuffer ==
  \/ \E m \in MgrIdx : \E i \in InternIdx(m), t \in {LongTask, FaultyTask} :
       ~IsKimi(Worker(m, i)) /\ execute_task(m, i, t)
  \/ \E m \in MgrIdx : \E i \in InternIdx(m), e \in BackendErrors :
       KimiStreamFail(m, i, e)
  \/ \E m \in MgrIdx : \E i \in InternIdx(m) : ExecuteStep(m, i)
  \/ \E m \in MgrIdx : \E i \in InternIdx(m) :
       IsKimi(Worker(m, i)) /\ kimi_execute_task(m, i, LongTask)
  \/ \E m \in MgrIdx : \E i \in InternIdx(m) : KimiChunk(m, i)
  \/ \E m \in MgrIdx : \E i \in InternIdx(m) : KimiStreamEnd(m, i)

SpecBuffer == InitBuffer /\ [][NextBuffer]_vars

\* -------------------------------------------------------------- execution
\* One InternAgent executes one task of a set of tasks that differ in the
\* step estimate and the failure flag, while it is killed and scanned at any
\* moment and the clock moves.
MaxSteps == 4         \* largest estimated_steps given explicitly
MaxKills == 1         \* calls of kill on the intern

ExecTasks ==
  { [id |-> "task_1", goal |-> "build api"] }
    \cup { [id |-> "task_1", goal |-> "build api", estimated_steps |-> n] : n \in 0..MaxSteps }
    \cup { [id |-> "task_1", goal |-> "build api", inject_failure |-> f] : f \in BOOLEAN }
    \cup { [id |-> "task_1", goal |-> "build api", estimated_steps |-> n, inject_failure |-> f] :
             n \in 0..MaxSteps, f \in BOOLEAN }

InitExecute ==
  LET mid == ManagerId(0)
      w   == Intern(AgentId(mid, 0), "code", mid)
  IN  /\ turn_number = 0
      /\ state = "initialization"
      /\ agent_registry = register_agent(<<>>, w.agent_id,
                             RegistrationTask(w.agent_id, w.specialty, w.manager_id).metadata, 0)
      /\ lock_locked = FALSE
      /\ managers = <<[Manager(mid) EXCEPT !.interns = <<w>>]>>
      /\ reg_tasks = <<[RegistrationTask(w.agent_id, w.specialty, w.manager_id)
                          EXCEPT !.done = TRUE]>>
      /\ strategic_log = <<>>
      /\ returned = <<>>
      /\ raised = "none"
      /\ advance_log = <<>>
      /\ now = Clock0
      /\ loops = <<>>

NextExecute ==
  \/ \E m \in MgrIdx : \E i \in InternIdx(m), t \in ExecTasks : execute_task(m, i, t)
  \/ \E m \in MgrIdx : \E i \in InternIdx(m) : ExecuteStep(m, i)
  \/ \E m \in MgrIdx : \E i \in InternIdx(m), r \in Reasons :
       KillCount(Worker(m, i).output_buffer) < MaxKills /\ kill(m, i, r)
  \/ \E m \in MgrIdx : \E i \in InternIdx(m) : monitor_intern(m, i)
  \/ Tick

SpecExecute == InitExecute /\ [][NextExecute]_vars

\* the event loop resumes every coroutine whose asyncio.sleep(0.1) is over
FairExecute ==
  SpecExecute /\ \A m \in {1} : \A i \in {1} : WF_vars(ExecuteStep(m, i))

\* ------------------------------------------------------------ registration
\* An EROSManager and a KimiEROSManager that share one BeliefRegistry (the
\* KimiEROSManager is built with the orchestrator's registry); both spawn
\* workers while the event loop runs the pending registration tasks.
KimiManager == 2      \* position of the KimiEROSManager in managers
IsKimiManager(m) == m = KimiManager

InitRegister ==
  /\ turn_number = 0
  /\ state = "initialization"
  /\ agent_registry = <<>>
  /\ lock_locked = FALSE
  /\ managers = <<Manager(ManagerId(0)), Manager(ManagerId(1))>>
  /\ reg_tasks = <<>>
  /\ strategic_log = <<>>
  /\ returned = <<>>
  /\ raised = "none"
  /\ advance_log = <<>>
  /\ now = Clock0
  /\ loops = <<>>

\* KimiEROSManager.spawn_intern: register_agent is an async def and is called
\* without await or create_task, so the call only builds a coroutine object
\* that is dropped; no task reaches the event loop
kimi_spawn_intern(m, specialty) ==
  /\ m \in MgrIdx
  /\ IF Len(managers[m].interns) >= max_interns
     THEN /\ raised' = "ValueError"
          /\ UNCHANGED managers
     ELSE LET mid      == managers[m].manager_id
              agent_id == KimiAgentId(mid, Len(managers[m].interns))
          IN  /\ managers' = [managers EXCEPT ![m].interns =
                                Append(@, KimiIntern(agent_id, specialty, mid))]
              /\ raised' = "none"
  /\ returned' = <<>>
  /\ UNCHANGED <<agent_registry, reg_tasks, strategic_log>>
  /\ StoreUnchanged

NextRegister ==
  \/ \E m \in MgrIdx, s \in Specialties :
       ~IsKimiManager(m) /\ CanSpawn(m) /\ spawn_intern(m, s)
  \/ \E m \in MgrIdx : \E i \in InternIdx(m), c \in Corrections :
       ~IsKimiManager(m) /\ CanSpawn(m) /\ respawn_with_correction(m, i, c)
  \/ \E m \in MgrIdx, s \in Specialties :
       IsKimiManager(m) /\ CanSpawn(m) /\ kimi_spawn_intern(m, s)
  \/ \E k \in DOMAIN reg_tasks : RunRegisterTask(k)
  \/ \E m \in MgrIdx : \E i \in InternIdx(m), t \in TaskSet :
       ~IsKimiManager(m) /\ OpsLeft /\ execute_task(m, i, t)
  \/ \E m \in MgrIdx : \E i \in InternIdx(m) :
       ~IsKimiManager(m) /\ ExecuteStep(m, i)
  \/ \E l \in Labels : OpsLeft /\ advance_turn(l)

SpecRegister == InitRegister /\ [][NextRegister]_vars

\* the event loop runs every task that asyncio.create_task has scheduled
FairRegister ==
  SpecRegister /\ \A k \in 1..MaxOps : WF_vars(RunRegisterTask(k))

\* ------------------------------------------------------- orchestrated runs
\* The runs of eros_demo.py and of kimi_integration.py.  In these runs loops = <<run, pcs>>: the run,
\* and for each manager the position of its monitoring loop coroutine:
\* "created" (not started yet), "sleep" (in asyncio.sleep(interval)),
\* "exited" (returned) or "raised" (left by an exception).
MaxChunks == 2        \* chunks the backend streams to a worker of a run

Runs == {"simulate_development_project", "run_mini_stress_test", "demo_kimi_integration"}
Run == loops[1]
LoopPc(m) == loops[2][m]

\* the interns a run spawns for one manager, and their registration tasks
Team(mid, n) == [k \in 1..n |-> Intern(AgentId(mid, k - 1), "code", mid)]
KimiTeam(mid, n) == [k \in 1..n |-> KimiIntern(KimiAgentId(mid, k - 1), "code", mid)]
TeamRegs(mid, n) == [k \in 1..n |-> RegistrationTask(AgentId(mid, k - 1), "code", mid)]

\* simulate_development_project and demo_kimi_integration give each team
\* fewer interns than the capacity; run_mini_stress_test fills every manager
TeamSize(run) ==
  IF run = "run_mini_stress_test" THEN max_interns ELSE max_interns - 1

\* the task of the i-th intern of the m-th manager: ui-failing, the last
\* task of the second team, and every task with i % 7 == 0 of the stress
\* test inject a failure
DemoTask(run, m, i) ==
  [id |-> "task", goal |-> "build api", estimated_steps |-> 3,
   inject_failure |-> IF run = "run_mini_stress_test"
                      THEN (i - 1) % 7 = 0
                      ELSE m = 2 /\ i = TeamSize(run)]

\* the state at the first await of the run.  simulate_development_project has
\* created its managers and interns and built every coroutine object.
\* run_mini_stress_test runs its managers one after the other, each in one
\* iteration of its for loop that awaits its own gather: the run is taken
\* at the gather of its first iteration.  demo_kimi_integration has built one
\* KimiEROSManager, whose spawn_intern registers nothing.
InitDemo ==
  \E run \in Runs :
    LET n == TeamSize(run)
        sim == run = "simulate_development_project"
        kimi == run = "demo_kimi_integration"
        first == [Manager(ManagerId(0)) EXCEPT !.interns =
                    IF kimi THEN KimiTeam(ManagerId(0), n) ELSE Team(ManagerId(0), n)]
    IN  /\ turn_number = 0
        /\ state = "initialization"
        /\ agent_registry = <<>>
        /\ lock_locked = FALSE
        /\ managers = IF sim
                      THEN <<first,
                             [Manager(ManagerId(1)) EXCEPT !.interns = Team(ManagerId(1), n)]>>
                      ELSE <<first>>
        /\ reg_tasks = IF sim
                       THEN TeamRegs(ManagerId(0), n) \o TeamRegs(ManagerId(1), n)
                       ELSE IF kimi THEN <<>> ELSE TeamRegs(ManagerId(0), n)
        /\ strategic_log = <<>>
        /\ returned = <<>>
        /\ raised = "none"
        /\ advance_log = <<>>
        /\ now = Clock0
        /\ loops = <<run, IF sim THEN <<"created", "created">> ELSE <<"created">>>>

AllReturned(m) == \A i \in InternIdx(m) : Worker(m, i).pc = "returned"
AllStarted(m) == \A i \in InternIdx(m) : Worker(m, i).pc # "new"
AllRegistered == \A k \in DOMAIN reg_tasks : reg_tasks[k].done

\* asyncio.gather starts the coroutines in the order of its arguments, after
\* the registration tasks that spawn_intern created earlier
DemoExecute(m, i) ==
  /\ m \in MgrIdx
  /\ i \in InternIdx(m)
  /\ AllRegistered
  /\ \A m2 \in MgrIdx : m2 < m => AllStarted(m2)
  /\ \A i2 \in InternIdx(m) : i2 < i => Worker(m, i2).pc # "new"
  /\ IF Run = "demo_kimi_integration"
     THEN kimi_execute_task(m, i, DemoTask(Run, m, i))
     ELSE execute_task(m, i, DemoTask(Run, m, i))

\* the monitoring coroutine of manager m runs up to its first sleep.
\* monitor_team is started by the second gather of
\* simulate_development_project, which is awaited after the gather of all
\* execute_task coroutines has returned; monitor is an argument of the same
\* gather as the execute_task coroutines of its manager, after them, and so
\* is monitor_loop.
LoopReady(m) ==
  /\ m \in MgrIdx
  /\ LoopPc(m) = "created"
  /\ IF Run = "simulate_development_project"
     THEN \A m2 \in MgrIdx : AllReturned(m2)
     ELSE AllStarted(m)

StartLoop(m) ==
  /\ LoopReady(m)
  /\ loops' = <<Run, [loops[2] EXCEPT ![m] =
                  IF Run = "simulate_development_project"
                       \/ CountState(managers[m].interns, {RUNNING}) > 0
                  THEN "sleep" ELSE "exited"]>>
  /\ returned' = <<>>
  /\ raised' = "none"
  /\ UNCHANGED <<turn_number, state, agent_registry, lock_locked, managers, reg_tasks,
                 strategic_log, advance_log, now>>

\* KimiInternAgent.kill: the worker is marked killed and its session is
\* closed by a task of its own; the stream of the worker then ends or raises
KimiKill(w, reason) ==
  [w EXCEPT !.state = KILLED,
            !.output_buffer = Append(@, [content |-> "TERMINATED: " \o reason,
                                         terminal |-> TRUE])]

\* for intern in manager.interns, from position i: monitor_intern; on an
\* alert monitor_team intervenes and respawns, monitor intervenes,
\* monitor_loop kills.  Interns appended by a respawn are visited by the
\* same for loop.
RECURSIVE ScanFrom(_, _, _, _, _)
ScanFrom(mgr, regs, i, run, t) ==
  IF i > Len(mgr.interns)
  THEN [mgr |-> mgr, regs |-> regs, raised |-> "none"]
  ELSE LET w     == mgr.interns[i]
           alert == IF run = "demo_kimi_integration"
                    THEN KimiMonitorIntern(mgr, w, t) ELSE MonitorIntern(mgr, w, t)
       IN  IF alert = <<>>
           THEN ScanFrom(mgr, regs, i + 1, run, t)
           ELSE LET reason == alert[1].reason
                    killed == [mgr EXCEPT
                                 !.interns[i] = Kill(w, reason),
                                 !.status_log = Append(@, InterventionLog(mgr, w, reason))]
                    new_id == AgentId(mgr.manager_id, Len(mgr.interns))
                IN  IF run = "demo_kimi_integration"
                    THEN ScanFrom([mgr EXCEPT !.interns[i] = KimiKill(w, reason)],
                                  regs, i + 1, run, t)
                    ELSE IF run = "run_mini_stress_test"
                    THEN ScanFrom(killed, regs, i + 1, run, t)
                    ELSE IF Len(mgr.interns) >= max_interns
                    THEN [mgr |-> killed, regs |-> regs, raised |-> "ValueError"]
                    ELSE ScanFrom([killed EXCEPT !.interns =
                                     Append(@, Intern(new_id, w.specialty, mgr.manager_id))],
                                  Append(regs, RegistrationTask(new_id, w.specialty,
                                                                mgr.manager_id)),
                                  i + 1, run, t)

MonitorPass_exits_after_first_pass(m) ==
  /\ m \in MgrIdx
  /\ LoopPc(m) = "sleep"
  /\ LET r == ScanFrom(managers[m], reg_tasks, 1, Run, now)
     IN  /\ managers' = [managers EXCEPT ![m] = r.mgr]
         /\ reg_tasks' = r.regs
         /\ raised' = r.raised
         /\ loops' = <<Run, [loops[2] EXCEPT ![m] =
                         IF r.raised # "none" THEN "raised" ELSE "exited"]>>
  /\ returned' = <<>>
  /\ UNCHANGED <<turn_number, state, agent_registry, lock_locked, strategic_log,
                 advance_log, now>>

\* the monitoring coroutine from the end of its sleep to the next sleep or
\* to its end: one pass over the interns, then the test for running interns
MonitorPass(m) ==
  /\ m \in MgrIdx
  /\ LoopPc(m) = "sleep"
  /\ LET r == ScanFrom(managers[m], reg_tasks, 1, Run, now)
     IN  /\ managers' = [managers EXCEPT ![m] = r.mgr]
         /\ reg_tasks' = r.regs
         /\ raised' = r.raised
         /\ loops' = <<Run, [loops[2] EXCEPT ![m] =
                         IF r.raised # "none" THEN "raised"
                         ELSE IF CountState(r.mgr.interns, {RUNNING}) = 0 THEN "exited"
                         ELSE "sleep"]>>
  /\ returned' = <<>>
  /\ UNCHANGED <<turn_number, state, agent_registry, lock_locked, strategic_log,
                 advance_log, now>>

\* time passes while some running intern is in its warm-up: the clock moves
\* by the length of the warm-up
WarmUpPasses ==
  /\ \E m \in MgrIdx : \E i \in InternIdx(m) :
       /\ Worker(m, i).state = RUNNING
       /\ now - Worker(m, i).start_time[1] < 30
  /\ now' = now + 30
  /\ returned' = <<>>
  /\ raised' = "none"
  /\ UNCHANGED <<turn_number, state, agent_registry, lock_locked, managers,
                 reg_tasks, strategic_log, advance_log, loops>>

NextDemo ==
  \/ \E k \in DOMAIN reg_tasks : RunRegisterTask(k)
  \/ \E m \in MgrIdx : \E i \in InternIdx(m) : DemoExecute(m, i)
  \/ \E m \in MgrIdx : \E i \in InternIdx(m) : ExecuteStep(m, i)
  \/ \E m \in MgrIdx : \E i \in InternIdx(m) :
       Worker(m, i).step < MaxChunks /\ KimiChunk(m, i)
  \/ \E m \in MgrIdx : \E i \in InternIdx(m) : KimiStreamEnd(m, i)
  \/ \E m \in MgrIdx : \E i \in InternIdx(m), e \in BackendErrors : KimiStreamFail(m, i, e)
  \/ \E m \in MgrIdx : StartLoop(m)
  \/ \E m \in MgrIdx : MonitorPass(m)
  \/ WarmUpPasses

SpecDemo == InitDemo /\ [][NextDemo]_vars

\* the pass of a monitoring loop that finds no running intern: it scans,
\* alerts nobody and leaves the loop
LoopExit(m) ==
  /\ m \in MgrIdx
  /\ CountState(managers[m].interns, {RUNNING}) = 0
  /\ MonitorPass(m)

\* the event loop runs every task that is ready: the coroutines handed to a
\* gather are started, a coroutine whose sleep is over is resumed, and the
\* stream of every started worker ends
FairDemo ==
  /\ SpecDemo
  /\ \A k \in 1..(2 * max_interns) : WF_vars(RunRegisterTask(k))
  /\ \A m \in 1..2 : \A i \in 1..max_interns :
       /\ WF_vars(DemoExecute(m, i))
       /\ WF_vars(ExecuteStep(m, i))
       /\ WF_vars(KimiStreamEnd(m, i))
  /\ \A m \in 1..2 : WF_vars(StartLoop(m)) /\ WF_vars(LoopExit(m))

\* ------------------------------------------------------------------ claims

\* C1: once a worker is Completed, Failed or Killed its lifecycle state never
\* changes again, also when kill races with natural completion.  Stated for
\* the race the claim names: a worker killed while its execute_task is
\* suspended between steps stays Killed in the next state.
C1_KilledStaysKilled ==
  [][\A m \in MgrIdx : \A i \in InternIdx(m) :
       (Worker(m, i).state = KILLED /\ Worker(m, i).pc = "sleep")
         => managers'[m].interns[i].state = KILLED]_vars

\* C2: after kill on a Running worker whose execute_task is suspended, no
\* further output event is appended: the step events stay as they are and the
\* last entry of the history stays a terminal kill event.
C2_NoOutputAfterKill ==
  [][\A m \in MgrIdx : \A i \in InternIdx(m) :
       LET w == Worker(m, i)
           v == managers'[m].interns[i]
       IN  (w.state = KILLED /\ w.pc = "sleep" /\ w.output_buffer # <<>>
              /\ IsTerminalEvent(Last(w.output_buffer)))
             => /\ StepEvents(v.output_buffer) = StepEvents(w.output_buffer)
                /\ IsTerminalEvent(Last(v.output_buffer))]_vars

\* C3: kill is idempotent: a kill of a worker that is already Killed leaves
\* the worker as it is (one terminal event, state Killed).
C3_KillIdempotent ==
  [][\A m \in MgrIdx : \A i \in InternIdx(m) : \A r \in Reasons :
       (Worker(m, i).state = KILLED /\ kill(m, i, r))
         => managers'[m].interns[i] = Worker(m, i)]_vars

\* C4: kill of a worker that is already Completed or Failed changes neither
\* its lifecycle state nor its output history.
C4_KillOnFinishedIsNoOp ==
  [][\A m \in MgrIdx : \A i \in InternIdx(m) : \A r \in Reasons :
       (Worker(m, i).state \in {COMPLETED, FAILED} /\ kill(m, i, r))
         => /\ managers'[m].interns[i].state = Worker(m, i).state
            /\ managers'[m].interns[i].output_buffer = Worker(m, i).output_buffer]_vars

\* C5: in every reachable state each manager owns at most max_interns workers.
C5_WithinCapacity ==
  \A m \in MgrIdx : Len(managers[m].interns) <= max_interns

\* a manager that is full, has intervened, and has just refused a spawn
C5_Witness ==
  \E m \in MgrIdx :
    /\ Len(managers[m].interns) = max_interns
    /\ managers[m].status_log # <<>>
    /\ raised = "ValueError"

\* C6: a spawn on a manager that already owns max_interns workers raises and
\* changes nothing: the managers with their workers, the worker directory and
\* the scheduled registrations are as before.
C6_RefusedSpawnChangesNothing ==
  [][\A m \in MgrIdx : \A s \in Specialties :
       (Len(managers[m].interns) >= max_interns /\ spawn_intern(m, s))
         => /\ raised' = "ValueError"
            /\ UNCHANGED <<managers, agent_registry, reg_tasks>>]_vars

\* a spawn was just refused while every worker has one scheduled registration
C6_Witness ==
  /\ raised = "ValueError"
  /\ Len(reg_tasks) = SumInterns(managers)
  /\ \E m \in MgrIdx : Len(managers[m].interns) = max_interns

\* C7: when spawn has returned, the worker directory holds the new worker's
\* id: every worker a manager owns is in the directory.
C7_RegisteredWhenSpawnReturns ==
  \A m \in MgrIdx : \A i \in InternIdx(m) :
    Worker(m, i).agent_id \in DOMAIN agent_registry

\* C8: registrations with pairwise distinct ids, run in any order and
\* interleaved with advance_turn, lose no update: the directory holds exactly
\* the ids of the registrations that have run, one entry each.
DoneTasks == {k \in DOMAIN reg_tasks : reg_tasks[k].done}

C8_NoLostRegistration ==
  /\ DOMAIN agent_registry = {reg_tasks[k].agent_id : k \in DoneTasks}
  /\ Cardinality(DOMAIN agent_registry) = Cardinality(DoneTasks)

\* two registrations from different managers have run, one before and one
\* after an advance_turn
C8_Witness ==
  \E a \in DOMAIN agent_registry, b \in DOMAIN agent_registry :
    /\ agent_registry[a].manager # agent_registry[b].manager
    /\ agent_registry[a].turn # agent_registry[b].turn

\* C9: the (turn, state) pair of every snapshot returned by sync is the
\* initial pair or the pair written by one completed advance_turn.
C9_NoTornSnapshot ==
  (returned # <<>> /\ returned[1] = "sync") =>
    LET s == returned[2]
    IN  \/ s.turn = 0 /\ s.state = "initialization"
        \/ s.turn \in DOMAIN advance_log /\ s.state = advance_log[s.turn]

\* a snapshot taken after two advance_turn calls with different labels
C9_Witness ==
  /\ returned # <<>>
  /\ returned[1] = "sync"
  /\ returned[2].turn = 2
  /\ advance_log[1] # advance_log[2]

\* C10: the turn starts at 0; every advance_turn(new_state) step adds exactly
\* 1 to it and sets the state label to new_state; every step that changes
\* the turn or the state label is an advance_turn step.
C10_TurnOnlyByAdvance ==
  /\ turn_number = 0
  /\ [][/\ \A l \in Labels :
             advance_turn(l) => (turn_number' = turn_number + 1 /\ state' = l)
        /\ (<<turn_number, state>>' # <<turn_number, state>>)
             => \E l \in Labels : advance_turn(l)]_vars

\* the turn was advanced twice and a manager has intervened
C10_Witness ==
  /\ turn_number = 2
  /\ state = advance_log[2]
  /\ \E m \in MgrIdx : managers[m].status_log # <<>>

\* C11: the worker directory is append-only: an id that is in the directory
\* is in the directory after every step (kill, intervene, respawn, the end of
\* a worker's execution and every other operation).
C11_DirectoryAppendOnly ==
  [][\A id \in DOMAIN agent_registry : id \in DOMAIN agent_registry']_vars

\* the directory holds a worker killed by intervene and the worker respawned
\* for it
C11_Witness ==
  \E m \in MgrIdx : \E i \in InternIdx(m), j \in InternIdx(m) :
    /\ i < j
    /\ Worker(m, i).state = KILLED
    /\ managers[m].status_log # <<>>
    /\ Worker(m, i).agent_id \in DOMAIN agent_registry
    /\ Worker(m, j).agent_id \in DOMAIN agent_registry

\* C12: a respawn_with_correction that succeeds makes a directory entry for
\* a new id, different from the failed worker's id, whose registration record
\* names the failed worker's id.  The record of the entry is the metadata of
\* the registration the respawn schedules (type and specialty are labels and
\* hold no id).
C12_RespawnReferencesFailed ==
  [][\A m \in MgrIdx : \A i \in InternIdx(m) : \A c \in Corrections :
       (respawn_with_correction(m, i, c) /\ raised' = "none")
         => LET failed == Worker(m, i).agent_id
                new    == Last(managers'[m].interns).agent_id
                reg    == Last(reg_tasks')
            IN  /\ new # failed
                /\ reg.agent_id = new
                /\ \E f \in DOMAIN reg.metadata \ {"type", "specialty"} :
                     reg.metadata[f] = failed]_vars

\* C13: a registration that runs while the turn is t leaves a directory
\* entry for its id that carries every field of the given metadata and the
\* turn stamp t; an advance_turn changes the stamp of no entry.
C13_StampedWithCurrentTurn ==
  [][/\ \A k \in DOMAIN reg_tasks :
          RunRegisterTask(k)
            => LET id == reg_tasks[k].agent_id
                   md == reg_tasks[k].metadata
               IN  /\ id \in DOMAIN agent_registry'
                   /\ agent_registry'[id].turn = turn_number
                   /\ \A f \in DOMAIN md :
                        /\ f \in DOMAIN agent_registry'[id]
                        /\ agent_registry'[id][f] = md[f]
     /\ \A l \in Labels :
          advance_turn(l)
            => \A id \in DOMAIN agent_registry :
                 agent_registry'[id].turn = agent_registry[id].turn]_vars

\* an entry registered at turn 1 still carries stamp 1 after the turn moved
\* on to 2
C13_Witness ==
  /\ turn_number = 2
  /\ \E id \in DOMAIN agent_registry :
       /\ agent_registry[id].turn = 1
       /\ agent_registry[id].type = "intern"

\* C14: a health scan of a worker returns an alert if and only if the
\* worker is Running, at least 30 s have passed since its start, it has at
\* least one output event and a current task, and the health vector of its
\* last 5 output events is not acceptable; the alert names the worker.  In
\* every other case the scan returns nothing.
C14_AlertIffUnhealthyScan ==
  (returned # <<>> /\ returned[1] = "monitor_intern") =>
    LET w     == Worker(1, 1)
        buf   == w.output_buffer
        last5 == [k \in 1..(IF Len(buf) > 5 THEN 5 ELSE Len(buf)) |->
                    buf[Len(buf) - (IF Len(buf) > 5 THEN 5 ELSE Len(buf)) + k]]
        due   == /\ w.state = RUNNING
                 /\ now - w.start_time[1] >= 30
                 /\ buf # <<>>
                 /\ w.task # <<>>
                 /\ w.task[1] # <<>>
                 /\ ~is_healthy(analyze_output(last5, w.task[1].goal))
    IN  /\ (returned[2] # <<>>) <=> due
        /\ returned[2] # <<>>
             => /\ returned[2][1].intern_id = w.agent_id
                /\ returned[2][1].alert = "INTERVENTION_REQUIRED"

\* an alert for a Running worker with more than 5 output events, scanned
\* exactly at the end of the warm-up
C14_Witness ==
  /\ returned # <<>>
  /\ returned[1] = "monitor_intern"
  /\ returned[2] # <<>>
  /\ Len(Worker(1, 1).output_buffer) > 5
  /\ now - Worker(1, 1).start_time[1] = 30

\* C15: the diagnosis of a health vector is the first match of: pleasure
\* <= 0.2 goal divergence; arousal >= 0.8 stalling or retry loop; dominance
\* <= 0.3 excessive uncertainty; else unknown -- for every vector of the grid,
\* the boundaries 0.2, 0.8 and 0.3 included.
C15_InclusiveDiagnosis ==
  (returned # <<>> /\ returned[1] \in {"diagnose_failure", "kimi_diagnose_failure"}) =>
    LET pad == returned[2]
    IN  returned[3] \in
          IF ~Above(pad.pleasure, 2, 10)
          THEN {"Low goal alignment - task divergence detected"}
          ELSE IF ~Below(pad.arousal, 8, 10)
          THEN {"High arousal - agent stalling or infinite retry loop",
                "High arousal - agent stalling or infinite retry"}
          ELSE IF ~Above(pad.dominance, 3, 10)
          THEN {"Low dominance - agent showing excessive uncertainty",
                "Low dominance - excessive uncertainty"}
          ELSE {"Unknown failure mode"}

\* C16: a scan of a Running worker that started more than 600 s ago returns
\* a TIMEOUT alert, whatever its output (none, healthy or unhealthy) and
\* whichever manager scans it.
C16_WatchdogFlagsTimeout ==
  (returned # <<>> /\ returned[1] \in {"monitor_intern", "kimi_monitor_intern"}) =>
    LET w == Worker(1, 1)
    IN  (w.state = RUNNING /\ now - w.start_time[1] > 600)
          => /\ returned[2] # <<>>
             /\ returned[2][1].alert = "TIMEOUT"

\* C17: intervene(worker, reason) on a Running worker leaves the worker
\* Killed, appends one terminal output event carrying the reason to its
\* history, appends exactly one audit record (manager id, worker id, action,
\* reason, id of the worker's task) to the manager's intervention log, and
\* returns that record.
C17_InterveneKillsAndLogs ==
  [][\A m \in MgrIdx : \A i \in InternIdx(m) : \A r \in Reasons :
       (Worker(m, i).state = RUNNING /\ intervene(m, i, r))
         => LET w   == Worker(m, i)
                v   == managers'[m].interns[i]
                rec == [manager_id |-> managers[m].manager_id,
                        intern_id |-> w.agent_id, action |-> "SIG_KILL",
                        reason |-> r, task_id |-> <<w.task[1].id>>]
            IN  /\ v.state = KILLED
                /\ v.output_buffer =
                     Append(w.output_buffer,
                            [content |-> "KILLED: " \o r, terminal |-> TRUE])
                /\ managers'[m].status_log = Append(managers[m].status_log, rec)
                /\ returned' = <<"intervene", rec>>]_vars

\* intervene has just returned its record for a worker that was Running, one
\* step into its task
C17_Witness ==
  /\ returned # <<>>
  /\ returned[1] = "intervene"
  /\ \E m \in MgrIdx : \E i \in InternIdx(m) :
       LET w == Worker(m, i)
       IN  /\ w.agent_id = returned[2].intern_id
           /\ w.state = KILLED
           /\ w.pc = "sleep"
           /\ Len(w.output_buffer) = 2
           /\ ~IsTerminalEvent(w.output_buffer[1])
           /\ IsTerminalEvent(w.output_buffer[2])
           /\ managers[m].status_log = <<returned[2]>>

\* C18: intervene on a worker that is already Killed, Completed or Failed
\* changes nothing: the worker's state and output history and the length of
\* the manager's intervention log stay as they are.
C18_InterveneOnTerminalIsNoOp ==
  [][\A m \in MgrIdx : \A i \in InternIdx(m) : \A r \in Reasons :
       (Worker(m, i).state \in Terminal /\ intervene(m, i, r))
         => /\ managers'[m].interns[i].state = Worker(m, i).state
            /\ managers'[m].interns[i].output_buffer = Worker(m, i).output_buffer
            /\ Len(managers'[m].status_log) = Len(managers[m].status_log)]_vars

\* C19: a respawn_with_correction(failed, correction) that succeeds returns
\* a new worker of the same manager and specialty that is Idle and not
\* started, and whose task holds every field of the failed worker's task plus
\* the correction text and the failed worker's id; the failed worker's task
\* is as before.
C19_RespawnCarriesCorrectedTask ==
  [][\A m \in MgrIdx : \A i \in InternIdx(m) : \A c \in Corrections :
       (respawn_with_correction(m, i, c) /\ raised' = "none"
          /\ Worker(m, i).task # <<>>)
         => LET failed == Worker(m, i)
                new    == Last(managers'[m].interns)
            IN  /\ new.manager_id = managers[m].manager_id
                /\ new.specialty = failed.specialty
                /\ new.state = IDLE
                /\ new.pc = "new"
                /\ managers'[m].interns[i].task = failed.task
                /\ new.task # <<>>
                /\ new.task[1].context_correction = c
                /\ new.task[1].previous_attempt = failed.agent_id
                /\ \A f \in DOMAIN failed.task[1] :
                     new.task[1][f] = failed.task[1][f]]_vars

\* C20: in every reachable state the status summary of a manager reports
\* total = number of workers owned, active / completed / failed = number of
\* workers now Running / Completed / Failed or Killed, interventions = length
\* of the intervention log, and health "healthy" exactly when no owned worker
\* is Failed or Killed, "degraded" otherwise.
C20_StatusSummaryCounts ==
  \A m \in MgrIdx :
    LET pulse == StatusPulse(managers[m])
        In(S) == Cardinality({ i \in InternIdx(m) : Worker(m, i).state \in S })
    IN  /\ pulse.interns_total = Cardinality(InternIdx(m))
        /\ pulse.interns_active = In({RUNNING})
        /\ pulse.interns_completed = In({COMPLETED})
        /\ pulse.interns_failed = In({FAILED, KILLED})
        /\ pulse.interventions = Len(managers[m].status_log)
        /\ pulse.health = (IF \E i \in InternIdx(m) :
                                Worker(m, i).state \in {FAILED, KILLED}
                           THEN "degraded" ELSE "healthy")

\* a manager with one worker Running and one Killed by an intervention
C20_Witness ==
  \E m \in MgrIdx :
    /\ StatusPulse(managers[m]).interns_active = 1
    /\ StatusPulse(managers[m]).interns_failed = 1
    /\ StatusPulse(managers[m]).interventions = 1
    /\ StatusPulse(managers[m]).health = "degraded"
    /\ \E i \in InternIdx(m) : Worker(m, i).state = KILLED

\* C21: a status summary carries no output content, kill reason or goal
\* text: the summary of a manager equals the summary of the manager that has
\* the same workers in the same lifecycle states and the same number of
\* interventions, with every output content, every goal and every
\* intervention reason replaced by the empty text.
C21_SummaryCarriesNoContent ==
  \A m \in MgrIdx :
    LET mgr == managers[m]
        blank_buffer(buf) == [j \in DOMAIN buf |-> [buf[j] EXCEPT !.content = ""]]
        blank_task(task) ==
          IF task = <<>> THEN <<>> ELSE <<[task[1] EXCEPT !.goal = ""]>>
        blank == [mgr EXCEPT
                    !.interns = [k \in DOMAIN mgr.interns |->
                       [mgr.interns[k] EXCEPT
                          !.output_buffer = blank_buffer(mgr.interns[k].output_buffer),
                          !.task = blank_task(mgr.interns[k].task)]],
                    !.status_log = [k \in DOMAIN mgr.status_log |->
                       [mgr.status_log[k] EXCEPT !.reason = ""]]]
    IN  /\ StatusPulse(mgr) = StatusPulse(blank)
        /\ DOMAIN StatusPulse(mgr) =
             {"manager_id", "interns_total", "interns_active", "interns_completed",
              "interns_failed", "interventions", "health"}

\* a manager whose worker has a goal, a step event and the terminal event of
\* an intervention with a reason
C21_Witness ==
  \E m \in MgrIdx : \E i \in InternIdx(m) :
    /\ Worker(m, i).task # <<>>
    /\ Len(StepEvents(Worker(m, i).output_buffer)) >= 1
    /\ KillCount(Worker(m, i).output_buffer) >= 1
    /\ managers[m].status_log # <<>>
    /\ Last(managers[m].status_log).reason # ""

\* C22: receive_status_pulses returns exactly one status summary per
\* manager, in creation order, and changes no manager, worker or store state;
\* the summaries, the decision made from them and the view (project
\* snapshot, number of managers, last decision, nothing else) are the same
\* when every output content, goal and intervention reason is blanked.
C22_OnlySummariesReachCoordinator ==
  [][LET blank_buffer(buf) == [j \in DOMAIN buf |-> [buf[j] EXCEPT !.content = ""]]
         blank_task(task) ==
           IF task = <<>> THEN <<>> ELSE <<[task[1] EXCEPT !.goal = ""]>>
         blank(mgr) == [mgr EXCEPT
                          !.interns = [k \in DOMAIN mgr.interns |->
                             [mgr.interns[k] EXCEPT
                                !.output_buffer = blank_buffer(mgr.interns[k].output_buffer),
                                !.task = blank_task(mgr.interns[k].task)]],
                          !.status_log = [k \in DOMAIN mgr.status_log |->
                             [mgr.status_log[k] EXCEPT !.reason = ""]]]
         blank_pulses == [m \in MgrIdx |-> StatusPulse(blank(managers[m]))]
     IN  /\ receive_status_pulses
              => /\ Len(Pulses) = Len(managers)
                 /\ \A m \in MgrIdx : Pulses[m].manager_id = ManagerId(m - 1)
                 /\ Pulses = blank_pulses
                 /\ UNCHANGED <<managers, agent_registry, reg_tasks, turn_number,
                                state, strategic_log, advance_log>>
         /\ (strategic_log' # strategic_log /\ make_strategic_decision)
              => /\ strategic_log' =
                      Append(strategic_log, Decision(blank_pulses, turn_number))
                 /\ UNCHANGED <<managers, agent_registry, reg_tasks, turn_number, state>>
         /\ get_orchestrator_view
              => OrchestratorView =
                   [project_id |-> ProjectId, state |-> state, turn |-> turn_number,
                    managers |-> Len(managers),
                    last_decision |-> IF strategic_log = <<>> THEN <<>>
                                      ELSE <<strategic_log[Len(strategic_log)]>>,
                    belief_registry |-> [project_id |-> ProjectId,
                                         constraints |-> GlobalConstraints,
                                         state |-> state, turn |-> turn_number,
                                         agents |-> Cardinality(DOMAIN agent_registry)]]
    ]_vars

\* two managers, the first with a worker that has produced output, and a
\* decision made from their summaries
C22_Witness ==
  /\ Len(managers) = 2
  /\ strategic_log # <<>>
  /\ Last(strategic_log).metrics.total_interns >= 1
  /\ \E i \in InternIdx(1) : Worker(1, i).output_buffer # <<>>
  /\ InternIdx(2) = {}

\* C23: make_strategic_decision(pulses) sums the total, active, completed,
\* failed and intervention counts over all pulses; completion_rate is
\* completed / total and failure_rate is failed / total, both 0 when the
\* total is 0; the action is PAUSE_AND_RECALIBRATE when failure_rate > 0.3
\* (also when completion_rate > 0.8), else ADVANCE_PHASE when
\* completion_rate > 0.8, else CONTINUE_MONITORING, the comparisons strict:
\* 8 of 10 completed continues, 9 of 10 advances, 3 of 10 failed does not
\* pause, no pulse at all continues.
C23_DecisionArithmetic ==
  (returned # <<>> /\ returned[1] = "make_strategic_decision") =>
    LET pulses == returned[2]
        d == returned[3]
        Sum(f) == Cardinality({ <<k, n>> \in (DOMAIN pulses) \X (1..10) : n <= pulses[k][f] })
        total == Sum("interns_total")
        completed == Sum("interns_completed")
        failed == Sum("interns_failed")
        pause == total > 0 /\ 10 * failed > 3 * total
        advance == total > 0 /\ 10 * completed > 8 * total
    IN  /\ d.metrics.total_interns = total
        /\ d.metrics.active = Sum("interns_active")
        /\ d.metrics.completed = completed
        /\ d.metrics.failed = failed
        /\ d.metrics.interventions = Sum("interventions")
        /\ total > 0 =>
             /\ d.metrics.completion_rate[1] * total = completed * d.metrics.completion_rate[2]
             /\ d.metrics.failure_rate[1] * total = failed * d.metrics.failure_rate[2]
             /\ d.metrics.completion_rate[2] > 0 /\ d.metrics.failure_rate[2] > 0
        /\ total = 0 =>
             /\ d.metrics.completion_rate = <<0, 1>>
             /\ d.metrics.failure_rate = <<0, 1>>
        /\ d.action = IF pause THEN "PAUSE_AND_RECALIBRATE"
                      ELSE IF advance THEN "ADVANCE_PHASE"
                      ELSE "CONTINUE_MONITORING"
        /\ (total = 10 /\ completed = 8 /\ ~pause) => d.action = "CONTINUE_MONITORING"
        /\ (total = 10 /\ completed = 9 /\ ~pause) => d.action = "ADVANCE_PHASE"
        /\ (total = 10 /\ failed = 3) => d.action # "PAUSE_AND_RECALIBRATE"
        /\ pulses = <<>> => d.action = "CONTINUE_MONITORING"
        /\ raised = "none"
        /\ strategic_log # <<>> /\ Last(strategic_log) = d

\* two pulses whose sums give failure_rate 0.4 and completion_rate 0.9: the
\* decision pauses
C23_Witness ==
  /\ returned # <<>> /\ returned[1] = "make_strategic_decision"
  /\ Len(returned[2]) = 2
  /\ returned[3].metrics.total_interns = 10
  /\ returned[3].metrics.completed = 9
  /\ returned[3].metrics.failed = 4
  /\ returned[3].action = "PAUSE_AND_RECALIBRATE"

\* C24: the decision log is append-only.  It starts empty and the view then
\* shows no last decision; a step either leaves the log and the view's last
\* decision as they are, or appends exactly one record, whose turn is the
\* registry's turn at that step and which the view shows as its last decision
\* from then on; no record is ever removed, reordered or replaced.
C24_DecisionLogAppendOnly ==
  /\ strategic_log = <<>> /\ OrchestratorView.last_decision = <<>>
  /\ [][ \/ /\ strategic_log' = strategic_log
            /\ OrchestratorView'.last_decision = OrchestratorView.last_decision
         \/ /\ make_strategic_decision
            /\ Len(strategic_log') = Len(strategic_log) + 1
            /\ SubSeq(strategic_log', 1, Len(strategic_log)) = strategic_log
            /\ Last(strategic_log').turn = turn_number
            /\ turn_number' = turn_number
            /\ OrchestratorView'.last_decision = <<Last(strategic_log')>>
       ]_vars

\* two decisions taken at different turns; the view shows the second
C24_Witness ==
  /\ Len(strategic_log) = 2
  /\ strategic_log[1].turn = 0
  /\ strategic_log[2].turn = 1
  /\ OrchestratorView.last_decision = <<strategic_log[2]>>
  /\ strategic_log[1] # strategic_log[2]

\* C25: the analyzer is total and bounded: for every list of output records,
\* records without content included, and every goal string, the empty one
\* included, it returns a vector whose pleasure, arousal and dominance are
\* each at least 0 and at most 1.
C25_AnalyzerBounded ==
  (returned # <<>> /\ returned[1] = "analyze_output") =>
    LET pad == returned[2]
        Unit(x) == x[2] > 0 /\ 0 <= x[1] /\ x[1] <= x[2]
    IN  /\ raised = "none"
        /\ DOMAIN pad = {"pleasure", "arousal", "dominance"}
        /\ Unit(pad.pleasure)
        /\ Unit(pad.arousal)
        /\ Unit(pad.dominance)

\* three records, one of them without content, the other two the same text
\* with all five error signals: arousal 5 * 0.2 + 0.4 is cut to 1; the goal is
\* empty
C25_Witness ==
  /\ returned # <<>> /\ returned[1] = "analyze_output"
  /\ Worker(1, 1).output_buffer
       = <<[timestamp |-> Clock0], [content |-> AllErrText], [content |-> AllErrText]>>
  /\ Worker(1, 1).task[1].goal = ""
  /\ returned[2].arousal = <<1, 1>>
  /\ returned[2].pleasure = <<0, 1>>

\* C26: for every goal string, the analyzer applied to an empty list of
\* output records returns exactly (0, 0, 0), and that vector is not
\* acceptable health.
C26_EmptyOutputIsZeroAndUnhealthy ==
  (/\ returned # <<>> /\ returned[1] = "analyze_output"
   /\ Worker(1, 1).output_buffer = <<>>) =>
     /\ returned[2].pleasure[1] = 0
     /\ returned[2].arousal[1] = 0
     /\ returned[2].dominance[1] = 0
     /\ ~is_healthy(returned[2])
     /\ raised = "none"

\* the empty list analysed against a goal of two words
C26_Witness ==
  /\ returned # <<>> /\ returned[1] = "analyze_output"
  /\ Worker(1, 1).output_buffer = <<>>
  /\ Worker(1, 1).task[1].goal = "fix login"
  /\ returned[2] = PADTelemetry(<<0, 1>>, <<0, 1>>, <<0, 1>>)

\* C27: a health vector is acceptable if and only if pleasure > 0.2 and
\* arousal < 0.8 and dominance > 0.3, each comparison strict: a vector with
\* pleasure = 0.2, or arousal = 0.8, or dominance = 0.3 is not acceptable.
C27_HealthyIffStrictlyInside ==
  (returned # <<>> /\ returned[1] = "is_healthy") =>
    LET p == returned[2].pleasure[1]   \* tenths
        a == returned[2].arousal[1]
        d == returned[2].dominance[1]
        healthy == returned[3]
    IN  /\ returned[2].pleasure[2] = 10 /\ returned[2].arousal[2] = 10
        /\ returned[2].dominance[2] = 10
        /\ healthy <=> (p >= 3 /\ a <= 7 /\ d >= 4)
        /\ (p = 2 \/ a = 8 \/ d = 3) => ~healthy
        /\ (p = 8 /\ a = 3 /\ d = 7) => healthy
        /\ (p = 1 /\ a = 3 /\ d = 7) => ~healthy
        /\ (p = 8 /\ a = 9 /\ d = 7) => ~healthy
        /\ (p = 8 /\ a = 3 /\ d = 1) => ~healthy
        /\ raised = "none"

\* arousal exactly 0.8 with pleasure and dominance well inside: not healthy
C27_Witness ==
  /\ returned # <<>> /\ returned[1] = "is_healthy"
  /\ returned[2] = PADTelemetry(<<8, 10>>, <<8, 10>>, <<7, 10>>)
  /\ returned[3] = FALSE

\* C28: a scan of a Running worker past the warm-up whose last three output
\* records all have the content "Error: x" returns an alert, and the alert's
\* diagnosis is the arousal one (stalling or retry loop).
C28_RepeatedErrorDiagnosedAsStalling ==
  (returned # <<>> /\ returned[1] \in {"monitor_intern", "kimi_monitor_intern"}) =>
    LET w == Worker(1, 1)
        n == Len(w.output_buffer)
    IN  (/\ w.state = RUNNING
         /\ TruthyTask(w.task)
         /\ now - w.start_time[1] >= 30
         /\ n >= 3
         /\ \A k \in (n - 2)..n : Content(w.output_buffer[k]) = ErrText)
          => /\ returned[2] # <<>>
             /\ returned[2][1].reason \in
                  {"High arousal - agent stalling or infinite retry loop",
                   "High arousal - agent stalling or infinite retry"}

\* C29: within one worker the output records are appended in the order in
\* which they are produced, each one before the next is asked for.  With n
\* records produced so far, the history is the produced sequence 1..n or,
\* after eviction, its last records: consecutive, in increasing order, none
\* moved, repeated or left out; and a step adds at most one record, the
\* next one, at the end.
C29_HistoryInProductionOrder ==
  [][LET Produced(w) == IF IsKimi(w) THEN w.step
                        ELSE IF w.pc = "returned" THEN w.step + 1 ELSE w.step
         Record(w, k) == IF IsKimi(w) THEN ChunkEvent(w, k, now) ELSE StepEvent(w, k)
         InOrder(w) ==
           LET n == Produced(w)
               d == n - Len(w.output_buffer)
           IN  /\ d >= 0
               /\ \A k \in DOMAIN w.output_buffer : w.output_buffer[k] = Record(w, d + k)
               /\ ~IsKimi(w) =>
                    \A k \in DOMAIN w.output_buffer : w.output_buffer[k].step = d + k
     IN  \A m \in MgrIdx : \A i \in InternIdx(m) :
           LET w == Worker(m, i)
               v == managers'[m].interns[i]
           IN  /\ InOrder(w)
               /\ InOrder(v)
               /\ \/ /\ Produced(v) = Produced(w)
                     /\ v.output_buffer = w.output_buffer
                  \/ /\ Produced(v) = Produced(w) + 1
                     /\ Last(v.output_buffer) = Record(v, Produced(v))
                     /\ \/ v.output_buffer = Append(w.output_buffer, Last(v.output_buffer))
                        \/ v.output_buffer = Append(Tail(w.output_buffer), Last(v.output_buffer))
    ]_vars

\* the InternAgent has produced more records than its deque holds and the
\* oldest ones are gone; the KimiInternAgent is in the middle of its stream
C29_Witness ==
  /\ Worker(1, 1).pc = "sleep"
  /\ Worker(1, 1).step = maxlen + 2
  /\ Worker(1, 1).output_buffer[1].step = 3
  /\ Last(Worker(1, 1).output_buffer).step = maxlen + 2
  /\ Worker(2, 1).pc = "stream"
  /\ Len(Worker(2, 1).output_buffer) = 2
  /\ Worker(2, 1).output_buffer[2].content = Chunk(2)

\* C30: every worker's output history is a first-in first-out buffer of the
\* fixed capacity maxlen: after n appends it holds exactly the
\* min(n, maxlen) most recent records in production order, so after
\* maxlen + 5 appends the 5 oldest are gone; its length never exceeds maxlen.
C30_FixedCapacityHistory ==
  \A m \in MgrIdx : \A i \in InternIdx(m) :
    LET w == Worker(m, i)
        n == IF IsKimi(w) THEN w.step
             ELSE IF w.pc = "returned" THEN w.step + 1 ELSE w.step
        held == IF n < maxlen THEN n ELSE maxlen
    IN  /\ Len(w.output_buffer) <= maxlen
        /\ Len(w.output_buffer) = held
        /\ \A k \in 1..held :
             w.output_buffer[k] = IF IsKimi(w) THEN ChunkEvent(w, n - held + k, now)
                                  ELSE StepEvent(w, n - held + k)

\* C31: when the execution backend raises an error or a timeout while a
\* worker that has not been killed is executing, the worker ends Failed, its
\* execute_task returns, the outcome carries the status ("error" or
\* "timeout") and an error text, and no exception reaches the caller.
C31_BackendFailureIsCaptured ==
  [][\A m \in MgrIdx : \A i \in InternIdx(m) :
       LET w == Worker(m, i)
           v == managers'[m].interns[i]
           failing ==
             \/ \E e \in BackendErrors : KimiStreamFail(m, i, e)
             \/ /\ ExecuteStep(m, i)
                /\ InjectFailure(w.task[1]) /\ w.step = 2
       IN  (w.state # KILLED /\ w.pc # "returned" /\ failing) =>
             /\ v.state = FAILED
             /\ v.pc = "returned"
             /\ v.result \in {<<"error">>, <<"timeout">>}
             /\ v.error # <<>> /\ v.error[1] # ""
             /\ raised' = "none"
    ]_vars

\* both workers have failed: the InternAgent in its third step, the
\* KimiInternAgent by a timeout of the stream after two chunks
C31_Witness ==
  /\ Worker(1, 1).state = FAILED
  /\ Worker(1, 1).result = <<"error">>
  /\ Len(Worker(1, 1).output_buffer) = 3
  /\ Worker(2, 1).state = FAILED
  /\ Worker(2, 1).result = <<"timeout">>
  /\ Worker(2, 1).error = <<"Task execution exceeded timeout limit">>
  /\ Len(Worker(2, 1).output_buffer) = 2

\* C33: without a kill, execute_task of a task with step estimate n (5 when
\* the task gives none) produces exactly n output records and ends Completed
\* with status "completed"; but when the failure flag is set and n >= 3 it
\* produces exactly 3 records and ends Failed with status "error".  With the
\* flag set and n < 3 it completes as usual.
C33_ExecuteOutcome ==
  \A m \in MgrIdx : \A i \in InternIdx(m) :
    LET w == Worker(m, i)
    IN  (w.pc = "returned" /\ KillCount(w.output_buffer) = 0) =>
          LET task == w.task[1]
              n == IF "estimated_steps" \in DOMAIN task THEN task.estimated_steps ELSE 5
              flag == "inject_failure" \in DOMAIN task /\ task.inject_failure
          IN  IF flag /\ n >= 3
              THEN /\ Len(w.output_buffer) = 3
                   /\ w.state = FAILED
                   /\ w.result = <<"error">>
              ELSE /\ Len(w.output_buffer) = n
                   /\ w.state = COMPLETED
                   /\ w.result = <<"completed">>

\* a task without a step estimate and with the flag unset has run to its
\* end: five records
C33_Witness ==
  /\ Worker(1, 1).pc = "returned"
  /\ Worker(1, 1).task = <<[id |-> "task_1", goal |-> "build api", inject_failure |-> FALSE]>>
  /\ Len(Worker(1, 1).output_buffer) = 5
  /\ KillCount(Worker(1, 1).output_buffer) = 0
  /\ Worker(1, 1).state = COMPLETED

\* C34: under fair scheduling every execute_task call ends: a started worker
\* whose coroutine is suspended eventually has its coroutine returned, with
\* an outcome that is no longer in progress and a state among Completed,
\* Failed and Killed, whatever kills and scans happen in between.
C34_ExecuteTerminates ==
  \A m \in {1} : \A i \in {1} :
    (Worker(m, i).pc = "sleep")
      ~> (/\ Worker(m, i).pc = "returned"
          /\ Worker(m, i).state \in Terminal
          /\ Worker(m, i).result \in {<<"completed">>, <<"error">>})

\* a worker that was killed after its first record and scanned has returned
C34_Witness ==
  /\ Worker(1, 1).pc = "returned"
  /\ Len(Worker(1, 1).output_buffer) = 4
  /\ IsTerminalEvent(Worker(1, 1).output_buffer[2])
  /\ returned # <<>> /\ returned[1] = "monitor_intern"

\* C35: every alert of the health path carries a specific diagnosis: when a
\* scan finds a vector that is not acceptable, the reason of its alert is
\* goal divergence, stalling or excessive uncertainty, never "unknown".
C35_AlertHasSpecificDiagnosis ==
  (/\ returned # <<>> /\ returned[1] \in {"monitor_intern", "kimi_monitor_intern"}
   /\ returned[2] # <<>>
   /\ returned[2][1].alert = "INTERVENTION_REQUIRED") =>
     /\ ~is_healthy(returned[2][1].telemetry)
     /\ returned[2][1].reason \in
          {"Low goal alignment - task divergence detected",
           "High arousal - agent stalling or infinite retry loop",
           "High arousal - agent stalling or infinite retry",
           "Low dominance - agent showing excessive uncertainty",
           "Low dominance - excessive uncertainty"}

\* C36: in every reachable state each worker named by a record of a
\* manager's intervention log is Killed, so the intervention count of the
\* manager's status pulse never exceeds its failed count.
C36_IntervenedWorkersAreKilled ==
  \A m \in MgrIdx :
    /\ \A k \in DOMAIN managers[m].status_log :
         \A i \in InternIdx(m) :
           Worker(m, i).agent_id = managers[m].status_log[k].intern_id
             => Worker(m, i).state = KILLED
    /\ StatusPulse(managers[m]).interventions <= StatusPulse(managers[m]).interns_failed

\* C37: worker ids are unique: after any sequence of create_manager,
\* spawn_intern and respawn_with_correction calls no two workers, of one
\* manager or of different managers, have the same id (written out as the
\* text f"manager_{k}_intern_{n}"), and no registration writes over the
\* directory entry of another worker.
C37_WorkerIdsUnique ==
  [][LET Text(id) == "manager_" \o ToString(id[1][2]) \o "_" \o id[2] \o "_" \o ToString(id[3])
         Owned == { <<m, i>> : m \in MgrIdx, i \in 1..max_interns }
         Held == { p \in Owned : p[2] \in InternIdx(p[1]) }
     IN  /\ \A p \in Held : \A q \in Held :
              p # q => Text(Worker(p[1], p[2]).agent_id) # Text(Worker(q[1], q[2]).agent_id)
         /\ \A k \in DOMAIN reg_tasks :
              (~reg_tasks[k].done /\ reg_tasks'[k].done)
                => /\ reg_tasks[k].agent_id \notin DOMAIN agent_registry
                   /\ DOMAIN agent_registry' = DOMAIN agent_registry \cup {reg_tasks[k].agent_id}
                   /\ \A a \in DOMAIN agent_registry : agent_registry'[a] = agent_registry[a]
    ]_vars

\* two managers; the first owns a worker and its respawn, the second one
\* worker; all three are registered under different ids
C37_Witness ==
  /\ Len(managers) = 2
  /\ Len(managers[1].interns) = 2
  /\ Len(managers[2].interns) = 1
  /\ Worker(1, 1).agent_id[3] = Worker(2, 1).agent_id[3]
  /\ Cardinality(DOMAIN agent_registry) = 3

\* C39: in every status summary active + completed + failed <= total, with
\* equality exactly when no owned worker is Idle; every decision made from
\* collected summaries, and the one that would be made now, has
\* completion_rate and failure_rate between 0 and 1 and their sum at most 1.
C39_SummaryCountsBounded ==
  LET RatesOk(d) ==
        LET c == d.metrics.completion_rate
            f == d.metrics.failure_rate
        IN  /\ c[2] > 0 /\ f[2] > 0
            /\ 0 <= c[1] /\ c[1] <= c[2]
            /\ 0 <= f[1] /\ f[1] <= f[2]
            /\ c[1] * f[2] + f[1] * c[2] <= c[2] * f[2]
  IN  /\ \A m \in MgrIdx :
           LET pulse == StatusPulse(managers[m])
               counted == pulse.interns_active + pulse.interns_completed
                            + pulse.interns_failed
               idle == \E i \in InternIdx(m) : Worker(m, i).state = IDLE
           IN  /\ counted <= pulse.interns_total
               /\ (counted = pulse.interns_total) <=> ~idle
      /\ \A k \in DOMAIN strategic_log : RatesOk(strategic_log[k])
      /\ RatesOk(Decision(Pulses, turn_number))

\* a decision made from the summary of a manager with one worker Completed
\* and one still Idle
C39_Witness ==
  /\ strategic_log # <<>>
  /\ Last(strategic_log).metrics.total_interns = 2
  /\ Last(strategic_log).metrics.completed = 1
  /\ Last(strategic_log).metrics.completion_rate = <<1, 2>>
  /\ \E m \in MgrIdx : \E i \in InternIdx(m) :
       /\ Worker(m, i).state = IDLE
       /\ StatusPulse(managers[m]).interns_completed = 1

\* C38: every spawned worker is eventually registered: a worker owned by a
\* manager is eventually in the worker directory, and whenever no
\* registration is pending the directory holds as many entries as the
\* managers sharing the store own workers.
C38_SpawnedEventuallyRegistered ==
  /\ \A m \in 1..2 : \A i \in 1..max_interns :
       (i \in InternIdx(m))
         ~> (i \in InternIdx(m) /\ Worker(m, i).agent_id \in DOMAIN agent_registry)
  /\ []((\A k \in DOMAIN reg_tasks : reg_tasks[k].done)
          => Cardinality(DOMAIN agent_registry) = SumInterns(managers))

\* C32: worker execution never blocks a scan and the scans of different
\* managers are independent: once the run has started every execute_task
\* coroutine, the monitoring loop of each manager is in its interval sleep or
\* can be started at once, whether or not a worker of this or of another
\* manager is still Running; it does not wait for executions to finish.
C32_ScanNeverWaitsForWorkers ==
  \A m \in MgrIdx :
    (\A m2 \in MgrIdx : AllStarted(m2))
      => /\ LoopPc(m) = "created" => LoopReady(m)
         /\ (\E i \in InternIdx(m) : Worker(m, i).state = RUNNING)
              => LoopPc(m) \in {"created", "sleep"}

====
